---- MODULE Spec2Model ----
(***************************************************************************)
(* Attendance recording engine of Dutch-QR (src/utils/attendanceUtils.ts). *)
(*                                                                         *)
(* The model follows recordAttendance await by await: the employee and     *)
(* roster lookups (static tables), the read of today's record, the insert  *)
(* of a second-session record or the upsert of the existing one.  Several  *)
(* scanners run recordAttendance concurrently against one attendance       *)
(* table; an administrator may delete records with deleteAttendance.       *)
(*                                                                         *)
(* Time is in milliseconds since the epoch of the model (day 0, 00:00 UTC);*)
(* the local time zone of the scanners is UTC.  An ISO timestamp string    *)
(* and the Date it parses to denote the same millisecond, so both are the  *)
(* same integer here.  JavaScript null/undefined is NULL.                  *)
(***************************************************************************)
EXTENDS Integers, Sequences, FiniteSets, TLC

\* ---------------------------------------------------------------- bounds
MaxTicks == 3         \* clock advances at most this many times
TickMs == 90000       \* one clock advance, in milliseconds
MaxId == 3            \* ids the store may hand out
MaxDeletes == 1       \* deleteAttendance calls that reach the store
MaxCheckRows == 3     \* rows up to which another writer adds one
MaxEmployees == 10    \* active employees the summary counts
MaxBoardRecords == 5  \* records of the day the summary reads
LateMinutes == 5      \* minutes_late of a record that was late
MaxMetricSteps == 24  \* half minutes before and after 09:00 a lateness is taken at
MaxGrace == 15        \* the longest grace period, in minutes
MaxBreak == 540       \* the longest break, in minutes
MaxHoursOpen == 3     \* hours after the last event the worked hours are taken at
MaxLogEntries == 12   \* entries the log callers make
MaxCacheTicks == 4    \* clock advances of the dashboard
MaxQueries == 2       \* getAttendanceRecords calls in flight
MaxScanTicks == 10    \* clock advances of the scanner

\* ------------------------------------------------------------- constants
NULL == -1
MsPerSecond == 1000
MaxAttempts == 10
MinGapMinutes == 15
MsPerMinute == 60000
MsPerDay == 86400000
MinutesPerHour == 60
FlushThreshold == 10
CacheDurationMs == 30000
DebounceMs == 2000
CacheTickMs == 10000
ScanTickMs == 500

Procs == {"s1", "s2"}

EmployeeIds == {"e1", "e2", "e3", "e4"}
ScannedIds == {"e0", "e1", "e3", "e4"}

\* The employees table: e1, e2 and e4 are active, e3 is inactive, e0 is
\* an id no row has.
employees ==
  [e \in EmployeeIds |-> [id |-> e, status |-> IF e = "e3" THEN "inactive" ELSE "active"]]

NoRoster ==
  [id |-> "none", start_time |-> <<0, 0>>, end_time |-> <<0, 0>>,
   break_duration |-> 0, grace_period |-> 0, early_departure_threshold |-> 0]

\* The active roster of an employee, or NoRoster when none is assigned
\* (e4 has none).
getEmployeeRoster(e) ==
  IF e \in {"e1", "e2"}
    THEN [id |-> "r1", start_time |-> <<9, 0>>, end_time |-> <<17, 0>>,
          break_duration |-> 60, grace_period |-> 2,
          early_departure_threshold |-> 15]
    ELSE NoRoster

\* The instant of the first scan: day 1, 09:00.
ClockStart == MsPerDay + 9 * MinutesPerHour * MsPerMinute

\* new Date().toISOString().split('T')[0]: the UTC calendar day.
DateOf(t) == t \div MsPerDay

Max(a, b) == IF a > b THEN a ELSE b

\* ------------------------------------------------------ metrics (4.1)
\* Lines 459-466 without Math.max.
calculateLatenessUnclamped(currentTime, rosterStartTime, gracePeriod) ==
  LET startTime == DateOf(currentTime) * MsPerDay
                   + (rosterStartTime[1] * MinutesPerHour + rosterStartTime[2]) * MsPerMinute
      lateMinutes == (currentTime - startTime) \div MsPerMinute
  IN  lateMinutes - gracePeriod

\* Lines 459-466.
calculateLateness(currentTime, rosterStartTime, gracePeriod) ==
  LET startTime == DateOf(currentTime) * MsPerDay
                   + (rosterStartTime[1] * MinutesPerHour + rosterStartTime[2]) * MsPerMinute
      lateMinutes == (currentTime - startTime) \div MsPerMinute
  IN  Max(0, lateMinutes - gracePeriod)

calculateEarlyDeparture(currentTime, rosterEndTime, threshold) ==
  LET endTime == DateOf(currentTime) * MsPerDay
                 + (rosterEndTime[1] * MinutesPerHour + rosterEndTime[2]) * MsPerMinute
      earlyMinutes == (endTime - currentTime) \div MsPerMinute
  IN  Max(0, earlyMinutes - threshold)

\* A number of hours is kept exact, as whole hours and sixtieths of an hour:
\* minutes / 60.
Hours(minutes) ==
  [whole |-> minutes \div MinutesPerHour, sixtieths |-> minutes % MinutesPerHour]

\* Math.max on two numbers of hours.
MaxHours(a, b) ==
  IF a.whole > b.whole \/ (a.whole = b.whole /\ a.sixtieths >= b.sixtieths)
    THEN a ELSE b

\* Line 489 without Math.max.
calculateExpectedHoursUnclamped(startTime, endTime, breakDuration) ==
  LET totalMinutes == (endTime[1] * MinutesPerHour + endTime[2])
                      - (startTime[1] * MinutesPerHour + startTime[2])
                      - breakDuration
  IN  Hours(totalMinutes)

\* Lines 484-490.
calculateExpectedHours(startTime, endTime, breakDuration) ==
  LET totalMinutes == (endTime[1] * MinutesPerHour + endTime[2])
                      - (startTime[1] * MinutesPerHour + startTime[2])
                      - breakDuration
  IN  MaxHours(Hours(0), Hours(totalMinutes))

\* Lines 492-514.  An open first session adds nothing; an open second
\* session adds the time up to currentTime.
calculateActualHours(record, currentTime, breakDuration) ==
  IF record.first_check_in_time = NULL THEN Hours(0)
  ELSE LET first ==
             IF record.first_check_out_time # NULL
               THEN (record.first_check_out_time - record.first_check_in_time)
                      \div MsPerMinute
               ELSE 0
           second ==
             IF record.second_check_in_time = NULL THEN 0
             ELSE IF record.second_check_out_time # NULL
               THEN (record.second_check_out_time - record.second_check_in_time)
                      \div MsPerMinute
             ELSE (currentTime - record.second_check_in_time) \div MsPerMinute
       IN  MaxHours(Hours(0), Hours(first + second - breakDuration))

\* ------------------------------------------------------------- messages
\* An error message is a sequence of words (the text split at blanks and
\* underscores); String.includes is the search for a contiguous run.
Includes(msg, needle) ==
  \E i \in 0..(Len(msg) - Len(needle)) :
    \A j \in 1..Len(needle) : msg[i + j] = needle[j]

CheckViolationMessage ==
  <<"new", "row", "violates", "check", "constraint", "check", "valid", "times">>
UniqueViolationMessage ==
  <<"duplicate", "key", "value", "violates", "unique", "constraint",
    "unique", "daily", "attendance">>
NetworkMessage == <<"Failed", "to", "fetch">>

ErrEmployeeNotFound == "Employee not found or invalid employee ID"
ErrEmployeeInactive == "Employee is not active in the system"
ErrNoRoster == "No valid roster found for employee"
ErrReadFailed == "Failed to check existing attendance"
ErrCompleted == "All attendance actions completed for today"
ErrCheckOutBeforeCheckIn == "Check-out time must be after check-in time"
ErrSecondInBeforeFirstOut == "Second check-in time must be after first check-out time"
ErrSecondOutBeforeSecondIn == "Second check-out time must be after second check-in time"
ErrInvalidSequence == "Invalid check-in/out sequence. Please try again."
ErrDuplicate == "Attendance record already exists for today."
ErrProcessFailed == "Failed to process attendance"

\* The classification of a rejected write (lines 336-342 and 423-429).
ClassifyWriteError(message) ==
  IF Includes(message, <<"valid", "check", "times">>) THEN ErrInvalidSequence
  ELSE IF Includes(message, <<"unique", "daily", "attendance">>) THEN ErrDuplicate
  ELSE ErrProcessFailed

\* ------------------------------------------------------------ the store
NoRecord ==
  [id |-> NULL, employee_id |-> "none", roster_id |-> "none", date |-> NULL,
   first_check_in_time |-> NULL, first_check_out_time |-> NULL,
   second_check_in_time |-> NULL, second_check_out_time |-> NULL,
   is_second_session |-> FALSE, previous_session_id |-> NULL,
   status |-> "none", minutes_late |-> 0, early_departure_minutes |-> 0,
   last_action |-> NULL]

VARIABLES
  now,         \* the wall clock at the latest scan, in ms
  attendance,  \* the rows of the attendance table
  nextId,      \* the next id the store hands out
  call,        \* per scanner: the recordAttendance call in flight
  admin,       \* the deleteAttendance call in flight
  deletes,     \* deleteAttendance calls that reached the store
  everStored,  \* history: id, employee and date of every row ever stored
  run,         \* history: per employee, the undisturbed run of scans so far
  view,        \* the getNextAttendanceAction call of the scanner screen
  guard,       \* the generateUniqueTimestamp call in flight
  checkTimes,  \* the attendance rows as generateUniqueTimestamp selects them
  board,       \* the getTodayAttendanceSummary call and the tables it reads
  current,     \* the getCurrentAttendanceState call of the scanner screen
  metric,      \* the call of a calculation helper
  logger,      \* the AttendanceLogger, its inserts in flight and the log table
  cache,       \* the attendance cache of useAttendanceData and its fetches
  scanner      \* the QRScanner component: its state and the scans in process

vars ==
  <<now, attendance, nextId, call, admin, deletes, everStored, run, view,
    guard, checkTimes, board, current, metric, logger, cache, scanner>>

ActionOrder == <<"first_check_in", "first_check_out", "second_check_in", "second_check_out">>

TimeFields ==
  <<"first_check_in_time", "first_check_out_time",
    "second_check_in_time", "second_check_out_time">>

\* findMany(attendance, employee_id = e), without the filter on the date.
TodayRowsAnyDate(rows, e, d) == {r \in rows : r.employee_id = e}

\* findMany(attendance, employee_id = e, date = d)
TodayRows(rows, e, d) == {r \in rows : r.employee_id = e /\ r.date = d}

\* .maybeSingle(): the row, null for no row, an error for several rows or
\* a failed request.
maybeSingle(rows, fault) ==
  IF fault # "none" THEN [error |-> TRUE, data |-> NoRecord]
  ELSE IF Cardinality(rows) > 1 THEN [error |-> TRUE, data |-> NoRecord]
  ELSE IF Cardinality(rows) = 1 THEN [error |-> FALSE, data |-> CHOOSE r \in rows : TRUE]
  ELSE [error |-> FALSE, data |-> NoRecord]

\* unique_daily_attendance: one primary row per (employee_id, date).
unique_daily_attendance(rows, row) ==
  row.is_second_session
  \/ ~ \E r \in rows : /\ r.id # row.id
                       /\ ~ r.is_second_session
                       /\ r.employee_id = row.employee_id
                       /\ r.date = row.date

\* The store's answer to a write of `row` (an insert when no stored row has
\* its id, an update of that row otherwise): the new table, or the message
\* of the constraint or failure that rejected it.
StoreWrite(rows, row, fault) ==
  IF fault = "check_valid_times"
    THEN [ok |-> FALSE, rows |-> rows, message |-> CheckViolationMessage]
  ELSE IF fault = "network"
    THEN [ok |-> FALSE, rows |-> rows, message |-> NetworkMessage]
  ELSE IF ~ unique_daily_attendance(rows, row)
    THEN [ok |-> FALSE, rows |-> rows, message |-> UniqueViolationMessage]
  ELSE [ok |-> TRUE, rows |-> {r \in rows : r.id # row.id} \cup {row}, message |-> <<>>]

ReadFaults == {"none", "network"}
WriteFaults == {"none", "check_valid_times", "network"}

\* --------------------------------------------------- recordAttendance
IdleCall ==
  [pc |-> "idle", employeeId |-> "none", currentTime |-> NULL, today |-> NULL,
   existingRecord |-> NoRecord, nextAction |-> "none", outcome |-> "none",
   error |-> "none", message |-> <<>>, writes |-> 0, faulted |-> FALSE,
   rivalAction |-> "none"]

\* Lines 209-216 without the test of the status.
ValidateEmployeeNoStatus(e) ==
  IF e \notin DOMAIN employees THEN ErrEmployeeNotFound ELSE "none"

\* Lines 209-216: the employee must exist and be active.
ValidateEmployee(e) ==
  IF e \notin DOMAIN employees THEN ErrEmployeeNotFound
  ELSE IF employees[e].status # "active" THEN ErrEmployeeInactive
  ELSE "none"

\* Lines 224-227 without the test.
ValidateRosterSkipped(roster) == "none"

\* Lines 224-227: the roster must exist and have an id.
ValidateRoster(roster) ==
  IF roster.id = "none" THEN ErrNoRoster ELSE "none"

\* Lines 243-259: the next action and status from the record read.
DecideBuggyElse(existingRecord) ==
  IF existingRecord.id = NULL
    THEN [action |-> "first_check_in", status |-> "CHECKED_IN", error |-> "none"]
  ELSE IF existingRecord.first_check_out_time = NULL
          /\ existingRecord.first_check_in_time # NULL
    THEN [action |-> "first_check_out", status |-> "ON_BREAK", error |-> "none"]
  ELSE IF existingRecord.second_check_in_time = NULL
          /\ existingRecord.first_check_out_time # NULL
    THEN [action |-> "second_check_in", status |-> "CHECKED_IN", error |-> "none"]
  ELSE [action |-> "second_check_out", status |-> "COMPLETED", error |-> "none"]

\* Lines 243-259 with the status of a first check-out left at CHECKED_IN.
DecideStatusKept(existingRecord) ==
  IF existingRecord.id = NULL
    THEN [action |-> "first_check_in", status |-> "CHECKED_IN", error |-> "none"]
  ELSE IF existingRecord.first_check_out_time = NULL
          /\ existingRecord.first_check_in_time # NULL
    THEN [action |-> "first_check_out", status |-> "CHECKED_IN", error |-> "none"]
  ELSE IF existingRecord.second_check_in_time = NULL
          /\ existingRecord.first_check_out_time # NULL
    THEN [action |-> "second_check_in", status |-> "CHECKED_IN", error |-> "none"]
  ELSE IF existingRecord.second_check_out_time = NULL
          /\ existingRecord.second_check_in_time # NULL
    THEN [action |-> "second_check_out", status |-> "COMPLETED", error |-> "none"]
  ELSE [action |-> "first_check_in", status |-> "CHECKED_IN", error |-> ErrCompleted]

Decide(existingRecord) ==
  IF existingRecord.id = NULL
    THEN [action |-> "first_check_in", status |-> "CHECKED_IN", error |-> "none"]
  ELSE IF existingRecord.first_check_out_time = NULL
          /\ existingRecord.first_check_in_time # NULL
    THEN [action |-> "first_check_out", status |-> "ON_BREAK", error |-> "none"]
  ELSE IF existingRecord.second_check_in_time = NULL
          /\ existingRecord.first_check_out_time # NULL
    THEN [action |-> "second_check_in", status |-> "CHECKED_IN", error |-> "none"]
  ELSE IF existingRecord.second_check_out_time = NULL
          /\ existingRecord.second_check_in_time # NULL
    THEN [action |-> "second_check_out", status |-> "COMPLETED", error |-> "none"]
  ELSE [action |-> "first_check_in", status |-> "CHECKED_IN", error |-> ErrCompleted]

\* Lines 261-279: the new time must be strictly after the preceding event.
ValidateSkipped(nextAction, existingRecord, newTime) == "none"

ValidateNonStrict(nextAction, existingRecord, newTime) ==
  IF nextAction = "first_check_out" /\ newTime < existingRecord.first_check_in_time
    THEN ErrCheckOutBeforeCheckIn
  ELSE IF nextAction = "second_check_in" /\ newTime < existingRecord.first_check_out_time
    THEN ErrSecondInBeforeFirstOut
  ELSE IF nextAction = "second_check_out" /\ newTime < existingRecord.second_check_in_time
    THEN ErrSecondOutBeforeSecondIn
  ELSE "none"

ValidateSequence(nextAction, existingRecord, newTime) ==
  IF nextAction = "first_check_out" /\ newTime <= existingRecord.first_check_in_time
    THEN ErrCheckOutBeforeCheckIn
  ELSE IF nextAction = "second_check_in" /\ newTime <= existingRecord.first_check_out_time
    THEN ErrSecondInBeforeFirstOut
  ELSE IF nextAction = "second_check_out" /\ newTime <= existingRecord.second_check_in_time
    THEN ErrSecondOutBeforeSecondIn
  ELSE "none"

\* Lines 283-287: lateness of the first check-in of the record read, or of
\* the scan itself for a first check-in.
MinutesLate(nextAction, existingRecord, currentTime, roster) ==
  calculateLateness(
    IF nextAction = "first_check_in" THEN currentTime
    ELSE existingRecord.first_check_in_time,
    roster.start_time, roster.grace_period)

\* Lines 289-290.
EarlyDepartureMinutes(nextAction, currentTime, roster) ==
  IF nextAction = "second_check_out"
    THEN calculateEarlyDeparture(currentTime, roster.end_time,
                                 roster.early_departure_threshold)
    ELSE 0

\* Lines 300-316 with the time of the scan in second_check_in_time.
SecondSessionDataSecondColumn(id, c, roster) ==
  [id |-> id, employee_id |-> c.employeeId, roster_id |-> roster.id,
   date |-> c.today,
   first_check_in_time |-> c.existingRecord.first_check_in_time,
   first_check_out_time |-> c.existingRecord.first_check_out_time,
   second_check_in_time |-> c.currentTime, second_check_out_time |-> NULL,
   is_second_session |-> TRUE, previous_session_id |-> c.existingRecord.id,
   status |-> Decide(c.existingRecord).status,
   minutes_late |-> MinutesLate(c.nextAction, c.existingRecord, c.currentTime, roster),
   early_departure_minutes |-> EarlyDepartureMinutes(c.nextAction, c.currentTime, roster),
   last_action |-> c.currentTime]

\* Lines 300-316: the row inserted for a second session.
SecondSessionData(id, c, roster) ==
  [id |-> id, employee_id |-> c.employeeId, roster_id |-> roster.id,
   date |-> c.today,
   first_check_in_time |-> c.currentTime, first_check_out_time |-> NULL,
   second_check_in_time |-> NULL, second_check_out_time |-> NULL,
   is_second_session |-> TRUE, previous_session_id |-> c.existingRecord.id,
   status |-> Decide(c.existingRecord).status,
   minutes_late |-> MinutesLate(c.nextAction, c.existingRecord, c.currentTime, roster),
   early_departure_minutes |-> EarlyDepartureMinutes(c.nextAction, c.currentTime, roster),
   last_action |-> c.currentTime]

\* Lines 363-380: the row upserted for every other action; `id` is the id
\* of the record read, or the fresh id the store gives a row sent without.
UpsertData(id, c, roster) ==
  [id |-> id, employee_id |-> c.employeeId, roster_id |-> roster.id,
   date |-> c.today,
   first_check_in_time |->
     IF c.nextAction = "first_check_in" THEN c.currentTime
     ELSE c.existingRecord.first_check_in_time,
   first_check_out_time |->
     IF c.nextAction = "first_check_out" THEN c.currentTime
     ELSE c.existingRecord.first_check_out_time,
   second_check_in_time |->
     IF c.nextAction = "second_check_in" THEN c.currentTime
     ELSE c.existingRecord.second_check_in_time,
   second_check_out_time |->
     IF c.nextAction = "second_check_out" THEN c.currentTime
     ELSE c.existingRecord.second_check_out_time,
   is_second_session |-> FALSE, previous_session_id |-> NULL,
   status |-> Decide(c.existingRecord).status,
   minutes_late |-> MinutesLate(c.nextAction, c.existingRecord, c.currentTime, roster),
   early_departure_minutes |-> EarlyDepartureMinutes(c.nextAction, c.currentTime, roster),
   last_action |-> c.currentTime]

\* Where the call goes after the insert of a second-session row succeeded:
\* it returns (lines 350-359).
AfterInsertFallsThrough == "upsert"

AfterInsert == "done"

\* ------------------------------------------------------------ histories
Undisturbed == [clean |-> TRUE, n |-> 0, last |-> NULL]
Disturbed == [clean |-> FALSE, n |-> 0, last |-> NULL]

InFlight(q) == call[q].pc \in {"read", "insert", "upsert"}

\* The run of employee e after a scan of e starts at time t on scanner p: it
\* stays undisturbed while scans follow one another at increasing times.
RunAfterStart(p, e, t) ==
  IF /\ run[e].clean
     /\ run[e].n < Len(ActionOrder)
     /\ \A q \in Procs \ {p} : ~ (InFlight(q) /\ call[q].employeeId = e)
     /\ (run[e].n = 0 \/ t > run[e].last)
    THEN [clean |-> TRUE, n |-> run[e].n + 1, last |-> t]
    ELSE Disturbed

Key(r) == [id |-> r.id, employee_id |-> r.employee_id, date |-> r.date]

\* History: the call of scanner q after the call c of another scanner has
\* written.  A call that had read today's record of the same employee and
\* not yet written remembers the action its rival completed.
AfterRivalWrite(q, c, written) ==
  IF /\ written
     /\ call[q].pc \in {"insert", "upsert"}
     /\ call[q].employeeId = c.employeeId
     /\ call[q].today = c.today
    THEN [call[q] EXCEPT !.rivalAction = c.nextAction]
    ELSE call[q]

\* The call c once it has returned `outcome`: what its caller sees, and the
\* histories of the call.
Finished(c, outcome, error, action, faulted) ==
  [IdleCall EXCEPT !.pc = "done", !.employeeId = c.employeeId,
                   !.nextAction = action, !.outcome = outcome, !.error = error,
                   !.writes = c.writes, !.faulted = faulted,
                   !.rivalAction = c.rivalAction]

\* The two queries of the scanner screen test the error the store client
\* returns and throw nothing themselves: `thrown` stays FALSE.
IdleView ==
  [pc |-> "idle", employeeId |-> "none", result |-> "none", faulted |-> FALSE,
   thrown |-> FALSE]

IdleCurrent ==
  [pc |-> "idle", employeeId |-> "none", result |-> "none", faulted |-> FALSE,
   thrown |-> FALSE,
   last |-> [employeeId |-> "none", result |-> "none", rows |-> {},
             faulted |-> FALSE]]

\* The caller of a finished call takes its result before anything else
\* happens.  No other step reads the result of a call, so this order loses
\* no behaviour of the store or of the calls in flight.
Quiet ==
  /\ view.pc = "idle"
  /\ current.pc = "idle"
  /\ admin.pc # "done"
  /\ board.pc # "done"
  /\ \A q \in Procs : call[q].pc # "done"

\* --------------------------------------------------------------- actions
\* Lines 202-227: the employee is loaded and checked, the time of the scan
\* is taken, the roster is resolved.
Start(p, e, t) ==
  /\ Quiet
  /\ call[p].pc = "idle"
  /\ now' = t
  /\ LET roster == getEmployeeRoster(e)
         begun == [IdleCall EXCEPT !.employeeId = e]
         timed == [begun EXCEPT !.currentTime = t, !.today = DateOf(t)]
     IN  IF ValidateEmployee(e) # "none"
           THEN /\ call' = [call EXCEPT ![p] =
                     Finished(begun, "error", ValidateEmployee(e), "none", FALSE)]
                /\ run' = run
         ELSE IF ValidateRoster(roster) # "none"
           THEN /\ call' = [call EXCEPT ![p] =
                     Finished(timed, "error", ValidateRoster(roster), "none", FALSE)]
                /\ run' = run
         ELSE /\ call' = [call EXCEPT ![p] = [timed EXCEPT !.pc = "read"]]
              /\ run' = [run EXCEPT ![e] = RunAfterStart(p, e, t)]
  /\ UNCHANGED <<attendance, nextId, admin, deletes, everStored, view,
               guard, checkTimes, board,
               current, metric,
               logger, cache, scanner>>

\* Lines 229-296: today's record is read, the next action decided and the
\* sequence validated; the write is prepared.
ReadExisting(p, fault) ==
  /\ Quiet
  /\ call[p].pc = "read"
  /\ LET c == call[p]
         res == maybeSingle(TodayRows(attendance, c.employeeId, c.today), fault)
         d == Decide(res.data)
         v == ValidateSequence(d.action, res.data, c.currentTime)
     IN  /\ call' = [call EXCEPT ![p] =
               IF res.error
                 THEN Finished(c, "error", ErrReadFailed, "none", fault # "none")
               ELSE IF d.error # "none"
                 THEN Finished(c, "error", d.error, d.action, FALSE)
               ELSE IF v # "none"
                 THEN Finished(c, "error", v, d.action, FALSE)
               ELSE [c EXCEPT !.pc = IF d.action = "second_check_in"
                                       THEN "insert" ELSE "upsert",
                              !.existingRecord = res.data,
                              !.nextAction = d.action]]
         /\ run' = IF fault # "none"
                     THEN [run EXCEPT ![c.employeeId] = Disturbed]
                     ELSE run
  /\ UNCHANGED <<now, attendance, nextId, admin, deletes, everStored, view,
               guard, checkTimes, board,
               current, metric,
               logger, cache, scanner>>

\* Lines 319-360: the insert of the second-session row.
Insert(p, fault) ==
  /\ Quiet
  /\ call[p].pc = "insert"
  /\ nextId <= MaxId
  /\ LET c == call[p]
         row == SecondSessionData(nextId, c, getEmployeeRoster(c.employeeId))
         w == StoreWrite(attendance, row, fault)
     IN  /\ attendance' = w.rows
         /\ nextId' = IF w.ok THEN nextId + 1 ELSE nextId
         /\ everStored' = IF w.ok THEN everStored \cup {Key(row)} ELSE everStored
         /\ call' = [q \in Procs |->
               IF q # p THEN AfterRivalWrite(q, c, w.ok)
               ELSE IF w.ok
                 THEN IF AfterInsert = "done"
                        THEN Finished([c EXCEPT !.writes = c.writes + 1],
                                      "ok", "none", c.nextAction, FALSE)
                        ELSE [c EXCEPT !.pc = AfterInsert, !.writes = c.writes + 1]
                 ELSE [Finished(c, "error", ClassifyWriteError(w.message),
                                c.nextAction, fault # "none")
                         EXCEPT !.message = w.message]]
         /\ run' = IF fault # "none"
                     THEN [run EXCEPT ![c.employeeId] = Disturbed]
                     ELSE run
  /\ UNCHANGED <<now, admin, deletes, view,
               guard, checkTimes, board,
               current, metric,
               logger, cache, scanner>>

\* Lines 362-446: the upsert of the row for every other action.  A row sent
\* without id gets a fresh one; a row whose id is stored replaces that row;
\* a row whose id is no longer stored is inserted.
Upsert(p, fault) ==
  /\ Quiet
  /\ call[p].pc = "upsert"
  /\ LET c == call[p]
         fresh == c.existingRecord.id = NULL
         id == IF fresh THEN nextId ELSE c.existingRecord.id
         row == UpsertData(id, c, getEmployeeRoster(c.employeeId))
         w == StoreWrite(attendance, row, fault)
     IN  /\ fresh => nextId <= MaxId
         /\ attendance' = w.rows
         /\ nextId' = IF w.ok /\ fresh THEN nextId + 1 ELSE nextId
         /\ everStored' = IF w.ok THEN everStored \cup {Key(row)} ELSE everStored
         /\ call' = [q \in Procs |->
               IF q # p THEN AfterRivalWrite(q, c, w.ok)
               ELSE IF w.ok
                 THEN Finished([c EXCEPT !.writes = c.writes + 1],
                               "ok", "none", c.nextAction, FALSE)
                 ELSE [Finished(c, "error", ClassifyWriteError(w.message),
                                c.nextAction, fault # "none")
                         EXCEPT !.message = w.message]]
         /\ run' = IF fault # "none"
                     THEN [run EXCEPT ![c.employeeId] = Disturbed]
                     ELSE run
  /\ UNCHANGED <<now, admin, deletes, view,
               guard, checkTimes, board,
               current, metric,
               logger, cache, scanner>>

\* The caller has the result (or the error) of the call; the scanner is
\* ready for the next scan.
Return(p) ==
  /\ call[p].pc = "done"
  /\ call' = [call EXCEPT ![p] = IdleCall]
  /\ UNCHANGED <<now, attendance, nextId, admin, deletes, everStored, run, view,
               guard, checkTimes, board,
               current, metric,
               logger, cache, scanner>>

\* The instants a scan may be taken at: the clock has not moved since the
\* last scan, or has advanced by one tick.
ScanTimes ==
  {now} \cup {t \in {now + TickMs} : t <= ClockStart + MaxTicks * TickMs}

\* ---------------------------------------------------- useAttendanceData
\* The hook runs in the browser of the dashboard; `clock` is its Date.now().
\* `entry` is attendanceCacheRef.current, `queries` the calls of
\* getAttendanceRecords in flight, `attendanceRecords` the list shown and
\* `last` the latest step of the hook.
IdleCache ==
  [clock |-> ClockStart, entry |-> [data |-> {}, timestamp |-> NULL], queries |-> 0,
   attendanceRecords |-> {}, last |-> "none"]

\* Lines 29-31 with an entry of exactly 30 seconds taken as valid.
isCacheValidInclusive(entry, clock) == clock - entry.timestamp <= CacheDurationMs

\* Lines 29-31.
isCacheValid(entry, clock) == clock - entry.timestamp < CacheDurationMs

\* Time passes in the browser of the dashboard.
CacheTick ==
  /\ cache.clock < ClockStart + MaxCacheTicks * CacheTickMs
  /\ cache' = [cache EXCEPT !.clock = @ + CacheTickMs, !.last = "tick"]
  /\ UNCHANGED <<now, attendance, nextId, call, admin, deletes, everStored, run,
                 view, guard, checkTimes, board, current, metric, logger, scanner>>

\* Lines 55-63: fetchAttendance shows the cached list when the cache is
\* valid and asks the store otherwise.
FetchAttendance ==
  /\ cache.queries < MaxQueries
  /\ cache' =
       IF cache.entry.timestamp # NULL /\ isCacheValid(cache.entry, cache.clock)
         THEN [cache EXCEPT !.attendanceRecords = cache.entry.data, !.last = "cache"]
         ELSE [cache EXCEPT !.queries = @ + 1, !.last = "store"]
  /\ UNCHANGED <<now, attendance, nextId, call, admin, deletes, everStored, run,
                 view, guard, checkTimes, board, current, metric, logger, scanner>>

\* Lines 105-111: forceRefresh clears the cache and fetches; the fetch
\* finds no entry and asks the store.
ForceRefresh ==
  /\ cache.queries < MaxQueries
  /\ cache' = [cache EXCEPT !.entry = IdleCache.entry, !.queries = @ + 1, !.last = "cleared"]
  /\ UNCHANGED <<now, attendance, nextId, call, admin, deletes, everStored, run,
                 view, guard, checkTimes, board, current, metric, logger, scanner>>

\* Lines 63-81: getAttendanceRecords returns the rows of the table, an
\* empty list when the store is not connected, or throws; a record without
\* date gets the day of its first check-in (lines 66-69); what results is
\* cached with the time of the answer, an error leaves the cache as it was.
FetchAnswer(outcome) ==
  /\ cache.queries > 0
  /\ cache' =
       IF outcome = "error"
         THEN [cache EXCEPT !.queries = @ - 1, !.last = "failed"]
         ELSE LET processedData ==
                    {[r EXCEPT !.date = IF r.date # NULL THEN r.date
                                        ELSE DateOf(r.first_check_in_time)] :
                       r \in attendance}
                  data == IF outcome = "rows" THEN processedData ELSE {}
              IN  [cache EXCEPT !.queries = @ - 1,
                                !.entry = [data |-> data, timestamp |-> cache.clock],
                                !.attendanceRecords = data,
                                !.last = "answer"]
  /\ UNCHANGED <<now, attendance, nextId, call, admin, deletes, everStored, run,
                 view, guard, checkTimes, board, current, metric, logger, scanner>>

\* ------------------------------------------------------------ QRScanner
\* `clock` is Date.now() of the scanner, isLoading and lastScanTime are the
\* state of the component as the handler of a detection sees it, `inFlight`
\* the recordAttendance calls of the component that have not returned and
\* `last` what the latest detection led to.
IdleScanner ==
  [clock |-> ClockStart, isLoading |-> FALSE, lastScanTime |-> 0, inFlight |-> 0,
   last |-> "none"]

\* Lines 31-38 without the test of isLoading.
PassesGuardsWhileLoading(sc, codes) ==
  /\ codes # "none"
  /\ codes # "blank"
  /\ sc.clock - sc.lastScanTime >= DebounceMs

\* Lines 31-38: the detection is taken up.
PassesGuards(sc, codes) ==
  /\ codes # "none"
  /\ ~ sc.isLoading
  /\ codes # "blank"
  /\ sc.clock - sc.lastScanTime >= DebounceMs

\* Time passes at the scanner.
ScannerTick ==
  /\ scanner.clock < ClockStart + MaxScanTicks * ScanTickMs
  /\ scanner' = [scanner EXCEPT !.clock = @ + ScanTickMs, !.last = "tick"]
  /\ UNCHANGED <<now, attendance, nextId, call, admin, deletes, everStored, run,
                 view, guard, checkTimes, board, current, metric, logger, cache>>

\* Lines 30-52: handleScan up to the call of recordAttendance.  A code that
\* is no employee code throws before the call and isLoading is reset at
\* once (lines 47-49, 133-134).
HandleScan(codes) ==
  /\ scanner' =
       IF ~ PassesGuards(scanner, codes)
         THEN [scanner EXCEPT !.last =
                 IF codes \in {"none", "blank"} THEN "empty"
                 ELSE IF scanner.isLoading THEN "busy"
                 ELSE "debounced"]
       ELSE IF codes # "employee"
         THEN [scanner EXCEPT !.lastScanTime = scanner.clock, !.last = "invalid"]
       ELSE [scanner EXCEPT !.lastScanTime = scanner.clock, !.isLoading = TRUE,
                            !.inFlight = @ + 1, !.last = "recording"]
  /\ UNCHANGED <<now, attendance, nextId, call, admin, deletes, everStored, run,
                 view, guard, checkTimes, board, current, metric, logger, cache>>

\* Lines 52-141: recordAttendance has returned or thrown, the result is
\* shown and isLoading is reset.
ScanProcessed ==
  /\ scanner.inFlight > 0
  /\ scanner' = [scanner EXCEPT !.inFlight = @ - 1, !.isLoading = FALSE,
                                !.last = "processed"]
  /\ UNCHANGED <<now, attendance, nextId, call, admin, deletes, everStored, run,
                 view, guard, checkTimes, board, current, metric, logger, cache>>

\* ----------------------------------------------------- AttendanceLogger
\* logBuffer is the buffer; an insert in flight holds the entries the
\* buffer had when the request was made; logStore is the attendance_logs
\* table, one element per inserted entry.  An entry carries the number of
\* the log call that made it, which stands for its timestamp and details.
IdleLogger == [logBuffer |-> <<>>, flights |-> {}, logStore |-> <<>>, logged |-> 0]

\* Line 71 with the test for more than 10 entries.
ShouldPersistOver(length) == length > FlushThreshold

\* Line 71.
ShouldPersist(length) == length >= FlushThreshold

\* Lines 52-85: log pushes the entry and calls persistLogs, which sends the
\* buffer when it is long enough and does not wait for the answer.
LoggerLog(lg, type, employee_id) ==
  LET logEntry == [n |-> lg.logged + 1, type |-> type, employee_id |-> employee_id]
      buffer == Append(lg.logBuffer, logEntry)
  IN  [lg EXCEPT
         !.logged = lg.logged + 1,
         !.logBuffer = buffer,
         !.flights = IF ShouldPersist(Len(buffer))
                       THEN @ \cup {[sent |-> lg.logged + 1, body |-> buffer]}
                       ELSE @]

\* A caller logs an entry.
LogCall(type, employee_id) ==
  /\ logger.logged < MaxLogEntries
  /\ logger' = LoggerLog(logger, type, employee_id)
  /\ UNCHANGED <<now, attendance, nextId, call, admin, deletes, everStored, run,
                 view, guard, checkTimes, board, current, metric, cache, scanner>>

\* Lines 72-80: the log store answers an insert; an error is only printed,
\* on success the buffer is replaced by an empty one.
PersistAnswer(flight, fault) ==
  /\ flight \in logger.flights
  /\ logger' =
       IF fault # "none"
         THEN [logger EXCEPT !.flights = @ \ {flight}]
         ELSE [logger EXCEPT !.flights = @ \ {flight},
                             !.logStore = @ \o flight.body,
                             !.logBuffer = <<>>]
  /\ UNCHANGED <<now, attendance, nextId, call, admin, deletes, everStored, run,
                 view, guard, checkTimes, board, current, metric, cache, scanner>>

\* ----------------------------------------------------- deleteAttendance
MsgFetchFailed == "Failed to fetch attendance record"
MsgDeleteFailed == "Failed to delete attendance record"
MsgDeleted == "Attendance record deleted successfully"

NoDeleteResult == [success |-> FALSE, message |-> "none"]

IdleAdmin == [pc |-> "idle", id |-> NULL, result |-> NoDeleteResult, thrown |-> FALSE]

DeleteFaults == {"none", "network"}

\* .single(): the row, an error for no row, for several rows or for a
\* failed request.
single(rows, fault) ==
  IF fault # "none" \/ Cardinality(rows) # 1
    THEN [error |-> TRUE, data |-> NoRecord]
    ELSE [error |-> FALSE, data |-> CHOOSE r \in rows : TRUE]

\* Lines 988-994 with the error thrown on to the caller.
DeleteRethrows(outcome) == outcome

\* Lines 988-994: catch turns an error thrown in the body into a result.
DeleteCatch(outcome) ==
  IF outcome.thrown
    THEN [thrown |-> FALSE, result |-> [success |-> FALSE, message |-> outcome.error]]
    ELSE outcome

DeleteThrows(message) ==
  [thrown |-> TRUE, error |-> message, result |-> NoDeleteResult]

\* Lines 968-971 with the rows of the record's employee deleted.
DeleteRowsOfEmployee(rows, id) ==
  {r \in rows : \A d \in rows : d.id = id => r.employee_id # d.employee_id}

\* Lines 968-971: delete().eq('id', attendanceId).
DeleteRows(rows, id) == {r \in rows : r.id # id}

\* The administrator has the result of the call `outcome`.
AdminDone(outcome) ==
  [pc |-> "done", id |-> NULL, result |-> outcome.result, thrown |-> outcome.thrown]

\* Lines 949-965: the record is fetched by id with .single(); no row is an
\* error of .single(), so the test of line 960 finds a record always.
DeleteFetch(id, fault) ==
  /\ Quiet
  /\ admin.pc = "idle"
  /\ deletes < MaxDeletes
  /\ LET read == single({r \in attendance : r.id = id}, fault)
     IN  admin' = IF read.error
                    THEN AdminDone(DeleteCatch(DeleteThrows(MsgFetchFailed)))
                    ELSE [IdleAdmin EXCEPT !.pc = "delete", !.id = id]
  /\ UNCHANGED <<now, attendance, nextId, call, deletes, everStored, run, view,
               guard, checkTimes, board,
               current, metric,
               logger, cache, scanner>>

\* Lines 967-987: the record is deleted.
DeleteExec(fault) ==
  /\ Quiet
  /\ admin.pc = "delete"
  /\ deletes' = deletes + 1
  /\ IF fault # "none"
       THEN /\ admin' = AdminDone(DeleteCatch(DeleteThrows(MsgDeleteFailed)))
            /\ UNCHANGED <<attendance, run, logger>>
       ELSE /\ attendance' = DeleteRows(attendance, admin.id)
            /\ logger' = IF \E r \in attendance : r.id = admin.id
                           THEN LoggerLog(logger, "error",
                                  (CHOOSE r \in attendance : r.id = admin.id).employee_id)
                           ELSE LoggerLog(logger, "error", "none")
            /\ admin' = AdminDone(DeleteCatch(
                 [thrown |-> FALSE,
                  result |-> [success |-> TRUE, message |-> MsgDeleted]]))
            /\ run' = [e \in EmployeeIds |->
                        IF \E r \in attendance : r.id = admin.id /\ r.employee_id = e
                          THEN Disturbed ELSE run[e]]
  /\ UNCHANGED <<now, nextId, call, everStored, view,
               guard, checkTimes, board,
               current, metric,
               cache, scanner>>

\* The administrator's page has the result.
AdminReturn ==
  /\ admin.pc = "done"
  /\ admin' = IdleAdmin
  /\ UNCHANGED <<now, attendance, nextId, call, deletes, everStored, run, view,
               guard, checkTimes, board, current, metric,
               logger, cache, scanner>>

\* ----------------------------------------------- getNextAttendanceAction
\* Lines 1072-1099, with the second_check_in test left out.
NextActionNoBreak(read) ==
  IF read.error THEN "first_check_in"
  ELSE IF read.data.id = NULL THEN "first_check_in"
  ELSE IF read.data.first_check_in_time = NULL THEN "first_check_in"
  ELSE IF read.data.first_check_out_time = NULL THEN "first_check_out"
  ELSE IF read.data.second_check_out_time = NULL THEN "second_check_out"
  ELSE "completed"

\* Lines 1072-1099: the next action from the answer of the read.
getNextAttendanceAction(read) ==
  IF read.error THEN "first_check_in"
  ELSE IF read.data.id = NULL THEN "first_check_in"
  ELSE IF read.data.first_check_in_time = NULL THEN "first_check_in"
  ELSE IF read.data.first_check_out_time = NULL THEN "first_check_out"
  ELSE IF read.data.second_check_in_time = NULL THEN "second_check_in"
  ELSE IF read.data.second_check_out_time = NULL THEN "second_check_out"
  ELSE "completed"

\* Lines 1061-1104: today's record of the employee is read and the next
\* action is returned.
QueryNextAction(e, fault) ==
  /\ Quiet
  /\ LET read == maybeSingle(TodayRows(attendance, e, DateOf(now)), fault)
     IN  view' = [pc |-> "done", employeeId |-> e,
                  result |-> getNextAttendanceAction(read),
                  faulted |-> fault # "none", thrown |-> FALSE]
  /\ UNCHANGED <<now, attendance, nextId, call, admin, deletes, everStored, run,
               guard, checkTimes, board,
               current, metric,
               logger, cache, scanner>>

\* The scanner screen takes the answer.
QueryReturn ==
  /\ view.pc = "done"
  /\ view' = IdleView
  /\ UNCHANGED <<now, attendance, nextId, call, admin, deletes, everStored, run,
               guard, checkTimes, board,
               current, metric,
               logger, cache, scanner>>

\* ----------------------------------------------- generateUniqueTimestamp
\* The function selects the columns check_in_time and check_out_time of the
\* attendance table, which recordAttendance neither reads nor writes; the
\* rows are kept here with these columns only.  created_at follows the id.
NoCheckRecord == [check_in_time |-> NULL, check_out_time |-> NULL]

IdleGuard ==
  [pc |-> "idle", employee_id |-> "none", baseTime |-> NULL, type |-> "none",
   uniqueTime |-> NULL, attempt |-> 0, lastRecord |-> NoCheckRecord,
   probes |-> 0, collided |-> FALSE, outcome |-> "none", error |-> "none",
   faulted |-> FALSE]

ErrProbeFailed == "Failed to generate unique timestamp"
ErrNoUniqueTimestamp == "Unable to generate unique timestamp"

\* Lines 139-146: the employee's row of the day created last, its two
\* columns; null for no row.  The error of the request is not looked at.
LastRecord(rows, e, today, fault) ==
  LET mine == {r \in rows : r.employee_id = e /\ r.date = today}
  IN  IF fault # "none" \/ mine = {} THEN NoCheckRecord
      ELSE LET last == CHOOSE r \in mine : \A r2 \in mine : r2.id <= r.id
           IN  [check_in_time |-> last.check_in_time,
                check_out_time |-> last.check_out_time]

\* Lines 148-169 without the floor of a check-in after a check-out.
CandidateNoCheckInGap(g, lastRecord) ==
  LET minCheckOutTime == lastRecord.check_in_time + MinGapMinutes * MsPerMinute
      floored ==
        IF /\ g.type = "check-out"
           /\ lastRecord.check_in_time # NULL
           /\ g.baseTime < minCheckOutTime
          THEN minCheckOutTime
        ELSE g.uniqueTime
  IN  floored + MsPerSecond * g.attempt

\* Lines 148-169: the candidate of this attempt.
Candidate(g, lastRecord) ==
  LET minCheckOutTime == lastRecord.check_in_time + MinGapMinutes * MsPerMinute
      minNextCheckIn == lastRecord.check_out_time + MinGapMinutes * MsPerMinute
      floored ==
        IF /\ g.type = "check-out"
           /\ lastRecord.check_in_time # NULL
           /\ g.baseTime < minCheckOutTime
          THEN minCheckOutTime
        ELSE IF /\ g.type = "check-in"
                /\ lastRecord.check_out_time # NULL
                /\ g.baseTime < minNextCheckIn
          THEN minNextCheckIn
        ELSE g.uniqueTime
  IN  floored + MsPerSecond * g.attempt

\* Lines 172-181 with the columns of the two types exchanged.
ProbeOtherColumn(rows, e, type, t) ==
  {r \in rows : /\ r.employee_id = e
                /\ (IF type = "check-in" THEN r.check_out_time
                    ELSE r.check_in_time) = t}

\* Lines 172-181: the employee's rows that hold the candidate in the column
\* of the type.
Probe(rows, e, type, t) ==
  {r \in rows : /\ r.employee_id = e
                /\ (IF type = "check-in" THEN r.check_in_time
                    ELSE r.check_out_time) = t}

\* Line 137 with one attempt more.
GivesUpLate(attempt) == attempt >= MaxAttempts + 1

\* Line 137: the loop ends when the attempts are used up.
GivesUp(attempt) == attempt >= MaxAttempts

\* Lines 129-135.
GuardStart(e, baseTime, type) ==
  /\ guard.pc = "idle"
  /\ guard' = [IdleGuard EXCEPT !.pc = "last", !.employee_id = e,
                                !.baseTime = baseTime, !.type = type,
                                !.uniqueTime = baseTime]
  /\ UNCHANGED <<now, attendance, nextId, call, admin, deletes, everStored,
                 run, view, checkTimes, board,
               current, metric,
               logger, cache, scanner>>

\* Lines 137-169: the last record of the day is read and the candidate of
\* the attempt computed.
GuardLast(fault) ==
  /\ guard.pc = "last"
  /\ LET lastRecord == LastRecord(checkTimes, guard.employee_id,
                                  DateOf(guard.baseTime), fault)
     IN  guard' = [guard EXCEPT !.pc = "probe",
                                !.lastRecord = lastRecord,
                                !.uniqueTime = Candidate(guard, lastRecord)]
  /\ UNCHANGED <<now, attendance, nextId, call, admin, deletes, everStored,
                 run, view, checkTimes, board,
               current, metric,
               logger, cache, scanner>>

\* Lines 171-196: the probe for the candidate, and what follows from it.
GuardProbe(fault) ==
  /\ guard.pc = "probe"
  /\ LET found == Probe(checkTimes, guard.employee_id, guard.type, guard.uniqueTime)
         res == maybeSingle(found, fault)
         probed == [guard EXCEPT !.probes = guard.probes + 1,
                                 !.faulted = fault # "none"]
     IN  guard' =
           IF res.error
             THEN [probed EXCEPT !.pc = "done", !.outcome = "error",
                                 !.error = ErrProbeFailed, !.collided = FALSE]
           ELSE IF found = {}
             THEN [probed EXCEPT !.pc = "done", !.outcome = "ok",
                                 !.collided = FALSE]
           ELSE IF GivesUp(guard.attempt + 1)
             THEN [probed EXCEPT !.pc = "done", !.outcome = "error",
                                 !.error = ErrNoUniqueTimestamp,
                                 !.attempt = guard.attempt + 1,
                                 !.collided = TRUE]
           ELSE [probed EXCEPT !.pc = "last", !.attempt = guard.attempt + 1,
                               !.collided = TRUE]
  /\ UNCHANGED <<now, attendance, nextId, call, admin, deletes, everStored,
                 run, view, checkTimes, board,
               current, metric,
               logger, cache, scanner>>

\* The caller has the timestamp or the error.
GuardReturn ==
  /\ guard.pc = "done"
  /\ guard' = IdleGuard
  /\ UNCHANGED <<now, attendance, nextId, call, admin, deletes, everStored,
                 run, view, checkTimes, board,
               current, metric,
               logger, cache, scanner>>

\* Another writer stores, while the call is in flight, a row that holds the
\* candidate in one of the two columns.
ConcurrentStore(column) ==
  /\ guard.pc \in {"last", "probe"}
  /\ guard.uniqueTime # NULL
  /\ Cardinality(checkTimes) < MaxCheckRows
  /\ checkTimes' = checkTimes \cup
       {[id |-> Cardinality(checkTimes) + 1, employee_id |-> guard.employee_id,
         date |-> DateOf(guard.uniqueTime),
         check_in_time |-> guard.uniqueTime,
         check_out_time |-> IF column = "check_out_time"
                              THEN guard.uniqueTime ELSE NULL]}
  /\ UNCHANGED <<now, attendance, nextId, call, admin, deletes, everStored,
                 run, view, guard, board,
               current, metric,
               logger, cache, scanner>>

\* ------------------------------------------------------ stored records
SeedTime(k, j) == IF j <= k THEN ClockStart - (k - j) * TickMs ELSE NULL

SeedStatus(k) ==
  IF k = 0 THEN "ABSENT"
  ELSE IF k = 2 THEN "ON_BREAK"
  ELSE IF k = 4 THEN "COMPLETED"
  ELSE "CHECKED_IN"

\* A record of e1 for the day of ClockStart + shift whose first k events are
\* set, the last of them at ClockStart + shift.
SeedRecord(k, shift) ==
  [id |-> 1, employee_id |-> "e1", roster_id |-> "r1",
   date |-> DateOf(ClockStart + shift),
   first_check_in_time |-> IF 1 <= k THEN SeedTime(k, 1) + shift ELSE NULL,
   first_check_out_time |-> IF 2 <= k THEN SeedTime(k, 2) + shift ELSE NULL,
   second_check_in_time |-> IF 3 <= k THEN SeedTime(k, 3) + shift ELSE NULL,
   second_check_out_time |-> IF 4 <= k THEN SeedTime(k, 4) + shift ELSE NULL,
   is_second_session |-> FALSE, previous_session_id |-> NULL,
   status |-> SeedStatus(k), minutes_late |-> 0, early_departure_minutes |-> 0,
   last_action |-> IF k = 0 THEN NULL ELSE ClockStart + shift]

\* --------------------------------------------- getTodayAttendanceSummary
ZeroCounts ==
  [currentlyPresent |-> 0, lateButPresent |-> 0, checkedOut |-> 0,
   onTimeArrivals |-> 0, absent |-> 0]

\* The text Number.toFixed(1) gives: a decimal with one digit after the
\* point, or the name of a value that is no finite number.
Fixed1(tenths) ==
  [text |-> "decimal", whole |-> tenths \div 10, tenth |-> tenths % 10]

NotANumber == [text |-> "NaN", whole |-> 0, tenth |-> 0]
InfinityText == [text |-> "Infinity", whole |-> 0, tenth |-> 0]

\* ((count / total) * 100).toFixed(1): the tenths of a percent nearest to
\* the quotient, the larger of two equally near.
Percent(count, total) == Fixed1((2000 * count + total) \div (2 * total))

\* Lines 705-724 without the test of the denominator.
RateUnguarded(count, total) ==
  IF total = 0 THEN (IF count = 0 THEN NotANumber ELSE InfinityText)
  ELSE Percent(count, total)

\* Lines 705-724: one rate, '0.0' when the denominator is not positive.
Rate(count, total) ==
  IF total > 0 THEN Percent(count, total) ELSE Fixed1(0)

\* Lines 703-725.
Rates(totalEmployees, counts) ==
  LET totalPresent == counts.currentlyPresent + counts.checkedOut
  IN  [currentPresenceRate |-> Rate(counts.currentlyPresent, totalEmployees),
       totalPresentRate |-> Rate(totalPresent, totalEmployees),
       onTimeRate |-> Rate(counts.onTimeArrivals, totalPresent),
       lateRate |-> Rate(counts.lateButPresent, totalPresent),
       absentRate |-> Rate(counts.absent, totalEmployees)]

\* Lines 755-791: what the function returns when a request failed.
ZeroSummary ==
  [totalEmployees |-> 0, statusCounts |-> ZeroCounts,
   rates |-> [currentPresenceRate |-> Fixed1(0), totalPresentRate |-> Fixed1(0),
              onTimeRate |-> Fixed1(0), lateRate |-> Fixed1(0),
              absentRate |-> Fixed1(0)]]

IdleBoard ==
  [pc |-> "idle", totalEmployees |-> 0, attendanceData |-> <<>>,
   result |-> ZeroSummary, faulted |-> FALSE, thrown |-> FALSE]

\* Lines 755-791: catch turns an error thrown in the body (lines 656 and
\* 666) into the summary of zeros.
SummaryCatch(outcome) ==
  IF outcome.thrown THEN [thrown |-> FALSE, value |-> ZeroSummary] ELSE outcome

\* Lines 679-697 with the last test left out: every other record counts as
\* checked out.
CountRecordRestCheckedOut(counts, record) ==
  IF record.first_check_in_time # NULL /\ record.first_check_out_time = NULL
    THEN IF record.minutes_late > 0
           THEN [counts EXCEPT !.currentlyPresent = @ + 1, !.lateButPresent = @ + 1]
           ELSE [counts EXCEPT !.currentlyPresent = @ + 1, !.onTimeArrivals = @ + 1]
  ELSE IF record.second_check_in_time # NULL /\ record.second_check_out_time = NULL
    THEN [counts EXCEPT !.currentlyPresent = @ + 1]
  ELSE IF record.minutes_late = 0
    THEN [counts EXCEPT !.checkedOut = @ + 1, !.onTimeArrivals = @ + 1]
  ELSE [counts EXCEPT !.checkedOut = @ + 1]

\* Lines 679-697: the counts after one record of the day.
CountRecord(counts, record) ==
  IF record.first_check_in_time # NULL /\ record.first_check_out_time = NULL
    THEN IF record.minutes_late > 0
           THEN [counts EXCEPT !.currentlyPresent = @ + 1, !.lateButPresent = @ + 1]
           ELSE [counts EXCEPT !.currentlyPresent = @ + 1, !.onTimeArrivals = @ + 1]
  ELSE IF record.second_check_in_time # NULL /\ record.second_check_out_time = NULL
    THEN [counts EXCEPT !.currentlyPresent = @ + 1]
  ELSE IF \/ record.second_check_out_time # NULL
          \/ (record.first_check_out_time # NULL /\ record.second_check_in_time = NULL)
    THEN IF record.minutes_late = 0
           THEN [counts EXCEPT !.checkedOut = @ + 1, !.onTimeArrivals = @ + 1]
           ELSE [counts EXCEPT !.checkedOut = @ + 1]
  ELSE counts

\* Lines 677-698: attendanceData.forEach.
RECURSIVE CountRecords(_, _)
CountRecords(attendanceData, n) ==
  IF n = 0 THEN ZeroCounts
  ELSE CountRecord(CountRecords(attendanceData, n - 1), attendanceData[n])

\* Line 701 without Math.max.
AbsentUnclamped(totalEmployees, counts) ==
  totalEmployees - (counts.currentlyPresent + counts.checkedOut)

\* Line 701.
Absent(totalEmployees, counts) ==
  Max(0, totalEmployees - (counts.currentlyPresent + counts.checkedOut))

\* Lines 658-754 and, for a failed request, 755-791: the counts of the
\* summary and its rates (the copies of the counts and the constant fields
\* are left out).
getTodayAttendanceSummary(totalEmployees, attendanceData, fault) ==
  SummaryCatch(
    IF fault # "none"
      THEN [thrown |-> TRUE, value |-> IdleBoard.result]
    ELSE LET counted == CountRecords(attendanceData, Len(attendanceData))
             counts == [counted EXCEPT !.absent = Absent(totalEmployees, counted)]
         IN  [thrown |-> FALSE,
              value |-> [totalEmployees |-> totalEmployees,
                         statusCounts |-> counts,
                         rates |-> Rates(totalEmployees, counts)]])

\* The records the table can hold for a day: the first k events of a day
\* are set, the first check-in was late or not.
BoardShapes == {shape \in (0..4) \X {0, LateMinutes} : shape[1] = 0 => shape[2] = 0}

ShapeRank(shape) == 2 * shape[1] + (IF shape[2] = 0 THEN 0 ELSE 1)

BoardRecordOf(i, shape) ==
  [SeedRecord(shape[1], 0) EXCEPT !.id = i, !.employee_id = "none",
                                   !.minutes_late = shape[2]]

\* A record of the day is in the table before the summary is asked for;
\* the rows are listed by shape, the order the summary does not depend on.
BoardRecord(shape) ==
  /\ board.pc = "idle"
  /\ Len(board.attendanceData) < MaxBoardRecords
  /\ LET n == Len(board.attendanceData)
         row == BoardRecordOf(n + 1, shape)
     IN  /\ n > 0 =>
               \E prev \in BoardShapes :
                 /\ BoardRecordOf(n, prev) = board.attendanceData[n]
                 /\ ShapeRank(prev) <= ShapeRank(shape)
         /\ board' = [board EXCEPT !.attendanceData = Append(@, row)]
  /\ UNCHANGED <<now, attendance, nextId, call, admin, deletes, everStored,
                 run, view, guard, checkTimes,
               current, metric,
               logger, cache, scanner>>

\* Lines 646-792.
Summarise(fault) ==
  /\ Quiet
  /\ board.pc = "idle"
  /\ LET outcome == getTodayAttendanceSummary(board.totalEmployees,
                                              board.attendanceData, fault)
     IN  board' = [board EXCEPT
           !.pc = "done",
           !.faulted = fault # "none",
           !.result = outcome.value,
           !.thrown = outcome.thrown]
  /\ UNCHANGED <<now, attendance, nextId, call, admin, deletes, everStored,
                 run, view, guard, checkTimes,
               current, metric,
               logger, cache, scanner>>

\* The dashboard has the summary.
BoardReturn ==
  /\ board.pc = "done"
  /\ board' = [board EXCEPT !.pc = "idle", !.faulted = FALSE,
                            !.result = IdleBoard.result, !.thrown = FALSE]
  /\ UNCHANGED <<now, attendance, nextId, call, admin, deletes, everStored,
                 run, view, guard, checkTimes,
               current, metric,
               logger, cache, scanner>>

\* --------------------------------------------- getCurrentAttendanceState
\* Lines 1110-1137 with the tests in the order of the day.
getCurrentAttendanceStateFirstWins(read) ==
  IF read.error \/ read.data.id = NULL THEN "not_checked_in"
  ELSE IF read.data.first_check_in_time # NULL THEN "first_checked_in"
  ELSE IF read.data.first_check_out_time # NULL THEN "first_checked_out"
  ELSE IF read.data.second_check_in_time # NULL THEN "second_checked_in"
  ELSE IF read.data.second_check_out_time # NULL THEN "second_checked_out"
  ELSE "not_checked_in"

\* Lines 1110-1137: the state from the answer of the read.
getCurrentAttendanceState(read) ==
  IF read.error \/ read.data.id = NULL THEN "not_checked_in"
  ELSE IF read.data.second_check_out_time # NULL THEN "second_checked_out"
  ELSE IF read.data.second_check_in_time # NULL THEN "second_checked_in"
  ELSE IF read.data.first_check_out_time # NULL THEN "first_checked_out"
  ELSE IF read.data.first_check_in_time # NULL THEN "first_checked_in"
  ELSE "not_checked_in"

\* Lines 1106-1142 with the record taken out of the table by the read.
QueryStateConsumes(e, fault) ==
  /\ Quiet
  /\ LET rows == TodayRows(attendance, e, DateOf(now))
         read == maybeSingle(rows, fault)
     IN  /\ current' = [current EXCEPT
               !.pc = "done", !.employeeId = e,
               !.result = getCurrentAttendanceState(read),
               !.faulted = fault # "none"]
         /\ attendance' = attendance \ rows
  /\ UNCHANGED <<now, nextId, call, admin, deletes, everStored, run, view,
                 guard, checkTimes, board, metric,
               logger, cache, scanner>>

\* Lines 1106-1142: today's record of the employee is read and the state
\* is returned.  `last` is history: the previous call, its answer and the
\* rows it was asked about.
QueryState(e, fault) ==
  /\ Quiet
  /\ LET read == maybeSingle(TodayRows(attendance, e, DateOf(now)), fault)
     IN  current' = [current EXCEPT
           !.pc = "done", !.employeeId = e,
           !.result = getCurrentAttendanceState(read),
           !.faulted = fault # "none"]
  /\ UNCHANGED <<now, attendance, nextId, call, admin, deletes, everStored, run,
                 view, guard, checkTimes, board, metric,
               logger, cache, scanner>>

\* The scanner screen takes the state.
StateReturn ==
  /\ current.pc = "done"
  /\ current' = [IdleCurrent EXCEPT
       !.last = [employeeId |-> current.employeeId, result |-> current.result,
                 rows |-> TodayRows(attendance, current.employeeId, DateOf(now)),
                 faulted |-> current.faulted]]
  /\ UNCHANGED <<now, attendance, nextId, call, admin, deletes, everStored, run,
                 view, guard, checkTimes, board, metric,
               logger, cache, scanner>>

\* ------------------------------------------- calculateAttendanceMetrics
\* Lines 809-860: the rows of the employee with a date in the range are
\* counted one by one (line 835); dates are days, so that the quotient of
\* line 849 is whole.  attendancePercentage is daysPresent / totalDays * 100
\* (line 859); the sums of minutes and hours are left out.
calculateAttendanceMetrics(rows, employeeId, startDate, endDate) ==
  LET data == {r \in rows : /\ r.employee_id = employeeId
                            /\ r.date >= startDate
                            /\ r.date <= endDate}
      daysPresent == Cardinality(data)
      totalDays == (endDate - startDate) + 1
  IN  [totalDays |-> totalDays, daysPresent |-> daysPresent,
       daysAbsent |-> totalDays - daysPresent]

\* ------------------------------------------------- calculation helpers
IdleMetric == [pc |-> "idle", fn |-> "none", args |-> <<>>, result |-> NULL]

\* calculateLateness is called.
LatenessCall(currentTime, rosterStartTime, gracePeriod) ==
  /\ metric.pc = "idle"
  /\ metric' = [pc |-> "done", fn |-> "calculateLateness",
                args |-> <<currentTime, rosterStartTime, gracePeriod>>,
                result |-> calculateLateness(currentTime, rosterStartTime, gracePeriod)]
  /\ UNCHANGED <<now, attendance, nextId, call, admin, deletes, everStored,
                 run, view, guard, checkTimes, board, current,
               logger, cache, scanner>>

\* calculateExpectedHours is called.
ExpectedHoursCall(startTime, endTime, breakDuration) ==
  /\ metric.pc = "idle"
  /\ metric' = [pc |-> "done", fn |-> "calculateExpectedHours",
                args |-> <<startTime, endTime, breakDuration>>,
                result |-> calculateExpectedHours(startTime, endTime, breakDuration)]
  /\ UNCHANGED <<now, attendance, nextId, call, admin, deletes, everStored,
                 run, view, guard, checkTimes, board, current,
               logger, cache, scanner>>

\* calculateActualHours is called.
ActualHoursCall(record, currentTime, breakDuration) ==
  /\ metric.pc = "idle"
  /\ metric' = [pc |-> "done", fn |-> "calculateActualHours",
                args |-> <<record, currentTime, breakDuration>>,
                result |-> calculateActualHours(record, currentTime, breakDuration)]
  /\ UNCHANGED <<now, attendance, nextId, call, admin, deletes, everStored,
                 run, view, guard, checkTimes, board, current,
               logger, cache, scanner>>

\* The caller has the number.
MetricReturn ==
  /\ metric.pc = "done"
  /\ metric' = IdleMetric
  /\ UNCHANGED <<now, attendance, nextId, call, admin, deletes, everStored,
                 run, view, guard, checkTimes, board, current,
               logger, cache, scanner>>

\* ------------------------------------------------------- specifications
SeedStores ==
  {{}} \cup {{SeedRecord(k, 0)} : k \in 0..4} \cup {{SeedRecord(4, 0 - MsPerDay)}}

InitRecorder(rows) ==
  /\ now = ClockStart
  /\ attendance = rows
  /\ nextId = Cardinality(rows) + 1
  /\ call = [p \in Procs |-> IdleCall]
  /\ admin = IdleAdmin
  /\ deletes = 0
  /\ view = IdleView
  /\ everStored = {Key(r) : r \in rows}
  /\ run = [e \in EmployeeIds |->
             IF \E r \in rows : r.employee_id = e THEN Disturbed ELSE Undisturbed]
  /\ current = IdleCurrent
  /\ metric = IdleMetric
  /\ logger = IdleLogger
  /\ cache = IdleCache
  /\ scanner = IdleScanner

InitWith(rows) ==
  /\ InitRecorder(rows)
  /\ guard = IdleGuard
  /\ checkTimes = {}
  /\ board = IdleBoard

Init == InitWith({})

InitSeeded == \E rows \in SeedStores : InitWith(rows)

Next ==
  \/ \E p \in Procs, e \in ScannedIds, t \in ScanTimes : Start(p, e, t)
  \/ \E p \in Procs, fault \in ReadFaults : ReadExisting(p, fault)
  \/ \E p \in Procs, fault \in WriteFaults : Insert(p, fault)
  \/ \E p \in Procs, fault \in WriteFaults : Upsert(p, fault)
  \/ \E p \in Procs : Return(p)
  \/ \E id \in 1..MaxId, fault \in DeleteFaults : DeleteFetch(id, fault)
  \/ \E fault \in DeleteFaults : DeleteExec(fault)
  \/ AdminReturn

Spec == Init /\ [][Next]_vars

SpecSeeded == InitSeeded /\ [][Next]_vars

\* One scanner, the administrator and the scanner screen's query of the
\* next action.
QueriedIds == {"e1", "e4"}

NextQuery ==
  \/ \E e \in ScannedIds, t \in ScanTimes : Start("s1", e, t)
  \/ \E fault \in ReadFaults : ReadExisting("s1", fault)
  \/ \E fault \in WriteFaults : Insert("s1", fault)
  \/ \E fault \in WriteFaults : Upsert("s1", fault)
  \/ Return("s1")
  \/ \E id \in 1..MaxId, fault \in DeleteFaults : DeleteFetch(id, fault)
  \/ \E fault \in DeleteFaults : DeleteExec(fault)
  \/ AdminReturn
  \/ \E e \in QueriedIds, fault \in ReadFaults : QueryNextAction(e, fault)
  \/ QueryReturn
  \/ \E e \in QueriedIds, fault \in ReadFaults : QueryState(e, fault)
  \/ StateReturn
  \/ \E fault \in ReadFaults : Summarise(fault)
  \/ BoardReturn

SpecQuery == InitSeeded /\ [][NextQuery]_vars

\* generateUniqueTimestamp against tables that hold the candidates of the
\* first n attempts.
Triangle(k) == (k * (k + 1)) \div 2

CheckRow(id, e, checkIn, checkOut) ==
  [id |-> id, employee_id |-> e, date |-> DateOf(checkIn),
   check_in_time |-> checkIn, check_out_time |-> checkOut]

\* n check-ins at the candidates of a check-in at ClockStart.
SeedCheckIns(n) ==
  {CheckRow(k + 1, "e1", ClockStart + MsPerSecond * Triangle(k), NULL) : k \in 0..(n - 1)}

\* n rows checked in at ClockStart and checked out at the candidates of a
\* check-out at ClockStart.
SeedCheckOuts(n) ==
  {CheckRow(k + 1, "e1", ClockStart,
            ClockStart + MinGapMinutes * MsPerMinute + MsPerSecond * k) : k \in 0..(n - 1)}

SeedCheckTimes ==
  {SeedCheckIns(n) : n \in {0, 1, 2, MaxAttempts - 1, MaxAttempts}}
  \cup {SeedCheckOuts(n) : n \in {1, MaxAttempts}}
  \cup {{CheckRow(1, "e1", ClockStart, NULL), CheckRow(2, "e1", ClockStart, NULL)},
        {CheckRow(1, "e2", ClockStart, NULL)}}

GuardBaseTimes == {ClockStart, ClockStart + MsPerSecond}

InitGuard ==
  /\ InitRecorder({})
  /\ guard = IdleGuard
  /\ checkTimes \in SeedCheckTimes
  /\ board = IdleBoard

NextGuard ==
  \/ \E baseTime \in GuardBaseTimes, type \in {"check-in", "check-out"} :
       GuardStart("e1", baseTime, type)
  \/ \E fault \in ReadFaults : GuardLast(fault)
  \/ \E fault \in ReadFaults : GuardProbe(fault)
  \/ GuardReturn
  \/ \E column \in {"check_in_time", "check_out_time"} : ConcurrentStore(column)

\* Each request of the call is answered, by rows or by an error.
SpecGuard ==
  /\ InitGuard
  /\ [][NextGuard]_vars
  /\ WF_vars(\E fault \in ReadFaults : GuardLast(fault))
  /\ WF_vars(\E fault \in ReadFaults : GuardProbe(fault))

\* getTodayAttendanceSummary as a function of the two tables it reads.
InitBoard ==
  /\ InitRecorder({})
  /\ guard = IdleGuard
  /\ checkTimes = {}
  /\ \E n \in 0..MaxEmployees : board = [IdleBoard EXCEPT !.totalEmployees = n]

NextBoard ==
  \/ \E shape \in BoardShapes : BoardRecord(shape)
  \/ \E fault \in ReadFaults : Summarise(fault)
  \/ BoardReturn

SpecBoard == InitBoard /\ [][NextBoard]_vars

\* The calculation helpers as functions of their arguments.
HalfMinuteMs == 30000

\* Instants around 09:00 of the day of ClockStart, half a minute apart.
MetricTimes == {ClockStart + k * HalfMinuteMs : k \in (0 - MaxMetricSteps)..MaxMetricSteps}

RosterTimes == {<<8, 30>>, <<9, 0>>, <<17, 0>>, <<17, 45>>}

GracePeriods == {0, 5, MaxGrace}

BreakDurations == {0, 1, 60, MaxBreak}

\* A record whose first k events are set, `span` minutes apart, the last of
\* them at ClockStart.
WorkRecord(k, span) ==
  [NoRecord EXCEPT
     !.id = 1, !.employee_id = "e1", !.date = DateOf(ClockStart),
     !.first_check_in_time =
        IF 1 <= k THEN ClockStart - (k - 1) * span * MsPerMinute ELSE NULL,
     !.first_check_out_time =
        IF 2 <= k THEN ClockStart - (k - 2) * span * MsPerMinute ELSE NULL,
     !.second_check_in_time =
        IF 3 <= k THEN ClockStart - (k - 3) * span * MsPerMinute ELSE NULL,
     !.second_check_out_time =
        IF 4 <= k THEN ClockStart - (k - 4) * span * MsPerMinute ELSE NULL]

WorkRecords == {NoRecord} \cup {WorkRecord(k, span) : k \in 0..4, span \in {1, 90}}

WorkTimes == {ClockStart + h * MinutesPerHour * MsPerMinute : h \in 0..MaxHoursOpen}

NextMetrics ==
  \/ \E currentTime \in MetricTimes, rosterStartTime \in RosterTimes,
        gracePeriod \in GracePeriods :
       LatenessCall(currentTime, rosterStartTime, gracePeriod)
  \/ \E startTime \in RosterTimes, endTime \in RosterTimes,
        breakDuration \in BreakDurations :
       ExpectedHoursCall(startTime, endTime, breakDuration)
  \/ \E record \in WorkRecords, currentTime \in WorkTimes,
        breakDuration \in BreakDurations :
       ActualHoursCall(record, currentTime, breakDuration)
  \/ MetricReturn

SpecMetrics == Init /\ [][NextMetrics]_vars

\* The logger, its callers and the log store.
NextLogger ==
  \/ \E e \in {"e1", "e2"} : LogCall("error", e)
  \/ \E flight \in logger.flights, fault \in DeleteFaults : PersistAnswer(flight, fault)

SpecLogger == Init /\ [][NextLogger]_vars

\* Two employees with a roster, each at a scanner of their own, over a
\* table that holds a record of e1 of the day before, left open or completed.
NextFrame ==
  \/ \E t \in ScanTimes : Start("s1", "e1", t)
  \/ \E t \in ScanTimes : Start("s2", "e2", t)
  \/ \E p \in Procs, fault \in ReadFaults : ReadExisting(p, fault)
  \/ \E p \in Procs, fault \in WriteFaults : Insert(p, fault)
  \/ \E p \in Procs, fault \in WriteFaults : Upsert(p, fault)
  \/ \E p \in Procs : Return(p)

SpecFrame ==
  /\ \E k \in {1, 4} : InitWith({SeedRecord(k, 0 - MsPerDay)})
  /\ [][NextFrame]_vars

\* The dashboard's hook next to one scanner that records attendance.
NextCache ==
  \/ \E t \in ScanTimes : Start("s1", "e1", t)
  \/ \E fault \in ReadFaults : ReadExisting("s1", fault)
  \/ \E fault \in WriteFaults : Insert("s1", fault)
  \/ \E fault \in WriteFaults : Upsert("s1", fault)
  \/ Return("s1")
  \/ CacheTick
  \/ FetchAttendance
  \/ ForceRefresh
  \/ \E outcome \in {"rows", "disconnected", "error"} : FetchAnswer(outcome)

SpecCache == Init /\ [][NextCache]_vars

\* The scanner component and the detections of its camera.
NextScanner ==
  \/ ScannerTick
  \/ \E codes \in {"none", "blank", "gatepass", "employee"} : HandleScan(codes)
  \/ ScanProcessed

SpecScanner == Init /\ [][NextScanner]_vars

\* ===================================================================
\* Properties
\* ===================================================================
IsSet(r, i) == r[TimeFields[i]] # NULL

AllSet(r) == \A i \in 1..4 : IsSet(r, i)

\* The session timestamps set on the rows of employee e for day d.
FieldsSet(e, d) ==
  {<<r.id, i>> : r \in TodayRows(attendance, e, d), i \in 1..4} \cap
  {x \in (1..MaxId + 1) \X (1..4) :
     \E r \in attendance : r.id = x[1] /\ IsSet(r, x[2])}

\* C1: for an active employee with a roster and no record for today, four
\* successive scans at strictly increasing times all succeed, perform
\* first_check_in, first_check_out, second_check_in and second_check_out in
\* this order, and each sets one more session timestamp.
C1_FourScansInOrder ==
  \A p \in Procs :
    LET c == call[p] IN
      (/\ c.pc = "done"
       /\ c.employeeId \in EmployeeIds
       /\ run[c.employeeId].clean
       /\ run[c.employeeId].n >= 1)
      => /\ c.outcome = "ok"
         /\ c.nextAction = ActionOrder[run[c.employeeId].n]
         /\ Cardinality(FieldsSet(c.employeeId, DateOf(now))) = run[c.employeeId].n

\* C2: when today's record of the employee has all four session timestamps
\* set, a call that reads it fails with the already-complete error and
\* writes nothing.
C2_CompletedDayRejected ==
  [][\A p \in Procs :
       (/\ call[p].pc = "read"
        /\ call'[p].pc # "read"
        /\ ~ call'[p].faulted
        /\ \E r \in attendance :
             /\ TodayRows(attendance, call[p].employeeId, call[p].today) = {r}
             /\ AllSet(r))
       => /\ call'[p].pc = "done"
          /\ call'[p].outcome = "error"
          /\ call'[p].error = ErrCompleted
          /\ call'[p].writes = 0
          /\ attendance' = attendance]_vars

C2_Witness ==
  \E p \in Procs :
    /\ call[p].pc = "done"
    /\ call[p].error = ErrCompleted
    /\ \E r \in TodayRows(attendance, call[p].employeeId, DateOf(now)) : AllSet(r)

\* C3: of two concurrent calls for the same employee and day that both read
\* before either wrote, at most one completes its write; the other ends
\* with the duplicate-attendance or the invalid-sequence error.
C3_ConcurrentScansExclusive ==
  \A p \in Procs :
    (/\ call[p].pc = "done"
     /\ call[p].rivalAction # "none"
     /\ ~ call[p].faulted
     /\ deletes = 0)
    => /\ call[p].outcome = "error"
       /\ call[p].error \in {ErrDuplicate, ErrInvalidSequence}

\* C4: a session timestamp of a stored record, once set, is never cleared
\* and never replaced by an earlier value.
C4_TimestampsAppendOnly ==
  [][\A r \in attendance : \A r2 \in attendance' :
       r2.id = r.id =>
         \A i \in 1..4 :
           IsSet(r, i) => IsSet(r2, i) /\ r2[TimeFields[i]] >= r[TimeFields[i]]]_vars

\* C5: in every stored record the session timestamps that are set are in
\* order: first_check_in <= first_check_out <= second_check_in <=
\* second_check_out.
C5_TimestampsOrdered ==
  \A r \in attendance :
    \A i, j \in 1..4 :
      (i < j /\ IsSet(r, i) /\ IsSet(r, j)) => r[TimeFields[i]] <= r[TimeFields[j]]

C5_Witness ==
  \E r \in attendance :
    /\ IsSet(r, 1) /\ IsSet(r, 2)
    /\ r.last_action > ClockStart
    /\ r.last_action = r.first_check_out_time

\* C6: per (employee_id, date) there is at most one record that
\* is not a second-session record, and every second-session record has a
\* previous_session_id that references a stored record of the same employee
\* and date.
C6_OnePrimaryLinkedSecond ==
  /\ \A r1, r2 \in attendance :
       (/\ r1.employee_id = r2.employee_id /\ r1.date = r2.date
        /\ ~ r1.is_second_session /\ ~ r2.is_second_session) => r1 = r2
  /\ \A r \in attendance :
       r.is_second_session =>
         \E r0 \in attendance : /\ r0.id = r.previous_session_id
                                /\ r0.employee_id = r.employee_id
                                /\ r0.date = r.date

\* C7: a call that succeeds has performed exactly one write of the
\* attendance table; a call that fails has performed none, and the step
\* that ends it leaves the table unchanged.
C7_OneWriteOrNone ==
  [][\A p \in Procs :
       (call[p].pc # "done" /\ call'[p].pc = "done")
       => /\ call'[p].outcome = "ok" => call'[p].writes = 1
          /\ call'[p].outcome = "error" =>
               (call'[p].writes = 0 /\ attendance' = attendance)]_vars

C7_Witness ==
  \E p \in Procs :
    /\ call[p].pc = "done"
    /\ call[p].outcome = "error"
    /\ call[p].nextAction = "first_check_out"
    /\ call[p].error = ErrProcessFailed
    /\ call[p].writes = 0

\* C8: when the call decides first_check_out, second_check_in or
\* second_check_out and the time of the scan is not strictly after the
\* stored timestamp of the preceding event, it fails with the error of that
\* sub-kind and writes nothing.
C8_SequenceViolationRejected ==
  [][\A p \in Procs :
       \A r \in attendance :
         (/\ call[p].pc = "read"
          /\ call'[p].pc # "read"
          /\ ~ call'[p].faulted
          /\ TodayRows(attendance, call[p].employeeId, call[p].today) = {r})
         => /\ (/\ IsSet(r, 1) /\ ~ IsSet(r, 2)
                /\ call[p].currentTime <= r.first_check_in_time)
               => /\ call'[p].outcome = "error"
                  /\ call'[p].error = ErrCheckOutBeforeCheckIn
                  /\ call'[p].writes = 0 /\ attendance' = attendance
            /\ (/\ IsSet(r, 1) /\ IsSet(r, 2) /\ ~ IsSet(r, 3)
                /\ call[p].currentTime <= r.first_check_out_time)
               => /\ call'[p].outcome = "error"
                  /\ call'[p].error = ErrSecondInBeforeFirstOut
                  /\ call'[p].writes = 0 /\ attendance' = attendance
            /\ (/\ IsSet(r, 1) /\ IsSet(r, 2) /\ IsSet(r, 3) /\ ~ IsSet(r, 4)
                /\ call[p].currentTime <= r.second_check_in_time)
               => /\ call'[p].outcome = "error"
                  /\ call'[p].error = ErrSecondOutBeforeSecondIn
                  /\ call'[p].writes = 0 /\ attendance' = attendance]_vars

C8_Witness ==
  \E p \in Procs :
    /\ call[p].pc = "done"
    /\ call[p].error = ErrSecondOutBeforeSecondIn
    /\ call[p].writes = 0

\* C10: a successful second_check_in inserts a new record with
\* is_second_session = true and previous_session_id the id of the record
\* read; every other successful action on an existing record updates that
\* record in place, keeping its id and the number of stored records.
C10_SecondSessionNewOthersInPlace ==
  [][\A p \in Procs :
       (/\ call[p].pc \in {"insert", "upsert"}
        /\ call'[p].pc = "done"
        /\ call'[p].outcome = "ok"
        /\ call[p].existingRecord.id # NULL)
       => IF call[p].nextAction = "second_check_in"
            THEN \E r \in attendance' :
                   /\ ~ \E r0 \in attendance : r0.id = r.id
                   /\ attendance' = attendance \cup {r}
                   /\ r.is_second_session
                   /\ r.previous_session_id = call[p].existingRecord.id
            ELSE /\ Cardinality(attendance') = Cardinality(attendance)
                 /\ \E r \in attendance, r2 \in attendance' :
                      /\ r.id = call[p].existingRecord.id
                      /\ r2.id = r.id
                      /\ attendance' = (attendance \ {r}) \cup {r2}]_vars

\* C9: getNextAttendanceAction answers from the null pattern of today's
\* record alone: no record or all four timestamps null gives first_check_in;
\* first_check_in_time set and first_check_out_time null gives
\* first_check_out; first_check_out_time set and second_check_in_time null
\* gives second_check_in; second_check_in_time set and second_check_out_time
\* null gives second_check_out; all four set gives completed.
C9_NextActionFromNullPattern ==
  (view.pc = "done" /\ ~ view.faulted)
  => LET rows == TodayRows(attendance, view.employeeId, DateOf(now))
     IN  /\ rows = {} => view.result = "first_check_in"
         /\ \A r \in rows :
              rows = {r} =>
                /\ (\A i \in 1..4 : ~ IsSet(r, i)) => view.result = "first_check_in"
                /\ (IsSet(r, 1) /\ ~ IsSet(r, 2)) => view.result = "first_check_out"
                /\ (IsSet(r, 2) /\ ~ IsSet(r, 3)) => view.result = "second_check_in"
                /\ (IsSet(r, 3) /\ ~ IsSet(r, 4)) => view.result = "second_check_out"
                /\ AllSet(r) => view.result = "completed"

C9_Witness ==
  /\ view.pc = "done"
  /\ view.result = "second_check_in"
  /\ \E r \in attendance : r.last_action > ClockStart /\ IsSet(r, 2)

\* The timestamp field a successful scan of `action` sets in the row it
\* writes (a second check-in writes the first_check_in_time of a new row).
ActionField(action) ==
  IF action = "first_check_out" THEN "first_check_out_time"
  ELSE IF action = "second_check_out" THEN "second_check_out_time"
  ELSE "first_check_in_time"

Abs(x) == IF x < 0 THEN 0 - x ELSE x

\* C11: when a scan succeeds after a concurrent scan of the same employee
\* and the same action has succeeded, the timestamps the two scans stored
\* differ by at least one second, and the day holds no two rows created by
\* the same action.
C11_NearScansKeptApart ==
  [][\A p \in Procs :
       LET c == call[p] IN
       (/\ c.pc \in {"insert", "upsert"}
        /\ call'[p].pc = "done"
        /\ call'[p].outcome = "ok"
        /\ c.rivalAction = c.nextAction
        /\ deletes = 0)
       => /\ \A r \in TodayRows(attendance, c.employeeId, c.today) :
               (/\ r.is_second_session = (c.nextAction = "second_check_in")
                /\ r[ActionField(c.nextAction)] # NULL)
               => Abs(c.currentTime - r[ActionField(c.nextAction)]) >= MsPerSecond
          /\ \A r1, r2 \in TodayRows(attendance', c.employeeId, c.today) :
               r1.is_second_session = r2.is_second_session => r1 = r2]_vars

\* C12: a call for an id no employee has fails with the employee-not-found
\* error, a call for an employee whose status is not active fails with the
\* employee-inactive error; either way the call ends in its first step,
\* before it reads the attendance table, and writes nothing.
C12_UnknownOrInactiveRejected ==
  [][\A p \in Procs :
       (call[p].pc = "idle" /\ call'[p].pc # "idle")
       => LET e == call'[p].employeeId
              ended(error) == /\ call'[p].pc = "done"
                              /\ call'[p].outcome = "error"
                              /\ call'[p].error = error
                              /\ call'[p].writes = 0
                              /\ attendance' = attendance
          IN  /\ e \notin DOMAIN employees => ended(ErrEmployeeNotFound)
              /\ (e \in DOMAIN employees /\ employees[e].status # "active")
                 => ended(ErrEmployeeInactive)]_vars

C12_Witness ==
  \E p \in Procs :
    /\ call[p].pc = "done"
    /\ call[p].error = ErrEmployeeInactive
    /\ attendance # {}

\* C13: a call for an active employee without a roster fails with the
\* no-roster error in its first step: no attendance record is inserted or
\* updated.
C13_NoRosterRejected ==
  [][\A p \in Procs :
       (/\ call[p].pc = "idle"
        /\ call'[p].pc # "idle"
        /\ call'[p].employeeId \in DOMAIN employees
        /\ employees[call'[p].employeeId].status = "active"
        /\ getEmployeeRoster(call'[p].employeeId).id = "none")
       => /\ call'[p].pc = "done"
          /\ call'[p].outcome = "error"
          /\ call'[p].error = ErrNoRoster
          /\ call'[p].writes = 0
          /\ attendance' = attendance]_vars

C13_Witness ==
  \E p \in Procs :
    /\ call[p].pc = "done"
    /\ call[p].error = ErrNoRoster
    /\ attendance # {}

\* C14: a write the store rejects is reported by the constraint that
\* rejected it: the check constraint on the times as the invalid-sequence
\* error, the uniqueness constraint as the duplicate-attendance error, any
\* other failure as the generic failure with the store's message.
C14_RejectedWriteClassified ==
  \A p \in Procs :
    (call[p].pc = "done" /\ call[p].message # <<>>)
    => /\ call[p].outcome = "error"
       /\ call[p].message = CheckViolationMessage
          => call[p].error = ErrInvalidSequence
       /\ call[p].message = UniqueViolationMessage
          => call[p].error = ErrDuplicate
       /\ call[p].message \notin {CheckViolationMessage, UniqueViolationMessage}
          => call[p].error = ErrProcessFailed

\* C16: a timestamp generateUniqueTimestamp returns for a check-out is at
\* least 15 minutes after the check-in of the last record it read, and one
\* it returns for a check-in at least 15 minutes after the check-out of
\* that record, whatever the base time and the attempt.
C16_MinimumGapRespected ==
  (guard.pc = "done" /\ guard.outcome = "ok")
  => /\ (guard.type = "check-out" /\ guard.lastRecord.check_in_time # NULL)
        => guard.uniqueTime >=
             guard.lastRecord.check_in_time + MinGapMinutes * MsPerMinute
     /\ (guard.type = "check-in" /\ guard.lastRecord.check_out_time # NULL)
        => guard.uniqueTime >=
             guard.lastRecord.check_out_time + MinGapMinutes * MsPerMinute

C16_Witness ==
  /\ guard.pc = "done"
  /\ guard.outcome = "ok"
  /\ guard.type = "check-in"
  /\ guard.lastRecord.check_out_time # NULL
  /\ guard.attempt >= 1
  /\ guard.baseTime < guard.lastRecord.check_out_time

\* The employee's rows that hold t in the column of the type.
HoldsTimestamp(e, type, t) ==
  {r \in checkTimes :
     /\ r.employee_id = e
     /\ \/ type = "check-in" /\ r.check_in_time = t
        \/ type = "check-out" /\ r.check_out_time = t}

\* C17: when generateUniqueTimestamp returns a timestamp, no row of the
\* employee holds it in the column of the type at the probe that returned
\* it; a probe that finds one row goes on to the next attempt, whose
\* candidate is later when the last record read is the same.
C17_ReturnedTimestampFree ==
  [][/\ (guard.pc = "probe" /\ guard'.pc = "done" /\ guard'.outcome = "ok")
        => HoldsTimestamp(guard.employee_id, guard.type, guard'.uniqueTime) = {}
     /\ (/\ guard.pc = "probe"
         /\ guard'.pc # "probe"
         /\ ~ guard'.faulted
         /\ Cardinality(HoldsTimestamp(guard.employee_id, guard.type,
                                       guard.uniqueTime)) = 1
         /\ guard.attempt + 1 < MaxAttempts)
        => /\ guard'.pc = "last"
           /\ guard'.attempt = guard.attempt + 1
     /\ (/\ guard.pc = "last"
         /\ guard.collided
         /\ guard'.pc = "probe"
         /\ guard'.lastRecord = guard.lastRecord)
        => guard'.uniqueTime > guard.uniqueTime]_vars

C17_Witness ==
  /\ guard.pc = "done"
  /\ guard.outcome = "ok"
  /\ guard.attempt >= 2
  /\ guard.type = "check-out"
  /\ HoldsTimestamp(guard.employee_id, "check-in", guard.uniqueTime) # {}

\* C18: generateUniqueTimestamp ends: it probes at most 10 times, fails
\* with 'Unable to generate unique timestamp' when the 10th candidate
\* collides, fails at once with 'Failed to generate unique timestamp' when
\* a probe is answered by an error, and every call in flight ends.
C18_GuardTerminates ==
  /\ [](guard.probes <= MaxAttempts)
  /\ []((guard.pc = "done" /\ guard.probes = MaxAttempts /\ guard.collided)
        => (guard.outcome = "error" /\ guard.error = ErrNoUniqueTimestamp))
  /\ [](guard.faulted
        => (/\ guard.pc = "done"
            /\ guard.outcome = "error"
            /\ guard.error = ErrProbeFailed))
  /\ ((guard.pc \in {"last", "probe"}) ~> (guard.pc = "done"))

C18_Witness ==
  /\ guard.pc = "done"
  /\ guard.probes = MaxAttempts
  /\ guard.outcome = "error"
  /\ guard.error = ErrNoUniqueTimestamp

\* The buckets of the summary, in the order of precedence: the second
\* session is open; else the first session is open; else the day is
\* checked out.
SecondOpen(r) == IsSet(r, 3) /\ ~ IsSet(r, 4)
FirstOpen(r) == ~ SecondOpen(r) /\ IsSet(r, 1) /\ ~ IsSet(r, 2)
CheckedOut(r) ==
  /\ ~ SecondOpen(r)
  /\ ~ FirstOpen(r)
  /\ (IsSet(r, 4) \/ (IsSet(r, 2) /\ ~ IsSet(r, 3)))

LateFirstOpen(r) == FirstOpen(r) /\ r.minutes_late > 0

BoardRows == 1..Len(board.attendanceData)

SecondOpenRows == {i \in BoardRows : SecondOpen(board.attendanceData[i])}
FirstOpenRows == {i \in BoardRows : FirstOpen(board.attendanceData[i])}
LateFirstOpenRows == {i \in BoardRows : LateFirstOpen(board.attendanceData[i])}
CheckedOutRows == {i \in BoardRows : CheckedOut(board.attendanceData[i])}
CompletedRows == {i \in BoardRows : AllSet(board.attendanceData[i])}

C20_AbsentCount ==
  (board.pc = "done" /\ ~ board.faulted)
  => LET counts == board.result.statusCounts
         rest == board.totalEmployees - (counts.currentlyPresent + counts.checkedOut)
     IN  /\ counts.absent = (IF rest < 0 THEN 0 ELSE rest)
         /\ counts.absent >= 0
         /\ (/\ board.totalEmployees = 10
             /\ Len(board.attendanceData) = 5
             /\ Cardinality(FirstOpenRows) = 3
             /\ Cardinality(LateFirstOpenRows) = 1
             /\ Cardinality(CompletedRows) = 2)
            => /\ counts.currentlyPresent = 3
               /\ counts.lateButPresent = 1
               /\ counts.checkedOut = 2
               /\ counts.absent = 5

C20_Witness ==
  /\ board.pc = "done"
  /\ ~ board.faulted
  /\ board.result.statusCounts.absent = 0
  /\ board.totalEmployees <
       board.result.statusCounts.currentlyPresent + board.result.statusCounts.checkedOut

\* Minutes of the day of a roster time "HH:MM".
MinuteOfDay(hhmm) == hhmm[1] * MinutesPerHour + hhmm[2]

\* C24: calculateLateness returns the whole minutes by which the time is
\* after the roster start of the same day, less the grace period, floored
\* at 0; it is never negative; 09:10 against "09:00" with grace 5 gives 5
\* and 08:55 gives 0.
C24_LatenessFloored ==
  (metric.pc = "done" /\ metric.fn = "calculateLateness")
  => LET currentTime == metric.args[1]
         grace == metric.args[3]
         start == (currentTime \div MsPerDay) * MsPerDay
                  + MinuteOfDay(metric.args[2]) * MsPerMinute
         after == IF currentTime > start
                    THEN (currentTime - start) \div MsPerMinute ELSE 0
     IN  /\ metric.result >= 0
         /\ metric.result = (IF after > grace THEN after - grace ELSE 0)
         /\ (metric.args = <<ClockStart + 10 * MsPerMinute, <<9, 0>>, 5>>)
              => metric.result = 5
         /\ (metric.args = <<ClockStart - 5 * MsPerMinute, <<9, 0>>, 5>>)
              => metric.result = 0

C24_Witness ==
  /\ metric.pc = "done"
  /\ metric.fn = "calculateLateness"
  /\ metric.args = <<ClockStart + 10 * MsPerMinute, <<9, 0>>, 5>>
  /\ metric.result = 5

\* C25: calculateExpectedHours returns end - start in minutes less the
\* break, as hours, floored at 0; it is never negative, also when the end
\* is before the start; "09:00" to "17:00" with a break of 60 gives 7.
C25_ExpectedHoursFloored ==
  (metric.pc = "done" /\ metric.fn = "calculateExpectedHours")
  => LET minutes == MinuteOfDay(metric.args[2]) - MinuteOfDay(metric.args[1])
                    - metric.args[3]
     IN  /\ metric.result.whole >= 0
         /\ metric.result.sixtieths \in 0..(MinutesPerHour - 1)
         /\ metric.result.whole * MinutesPerHour + metric.result.sixtieths
              = (IF minutes > 0 THEN minutes ELSE 0)
         /\ (metric.args = <<<<9, 0>>, <<17, 0>>, 60>>)
              => metric.result = [whole |-> 7, sixtieths |-> 0]

C25_Witness ==
  /\ metric.pc = "done"
  /\ metric.fn = "calculateExpectedHours"
  /\ MinuteOfDay(metric.args[2]) < MinuteOfDay(metric.args[1])
  /\ metric.args[3] > 0
  /\ metric.result = [whole |-> 0, sixtieths |-> 0]

\* Whole minutes from a to b.
MinutesBetween(a, b) == (b - a) \div MsPerMinute

\* C26: calculateActualHours returns the time of each completed session
\* plus the time from the check-in to now of an open session, first or
\* second, less the break, as hours, floored at 0.
C26_ActualHoursCountOpenSession ==
  (metric.pc = "done" /\ metric.fn = "calculateActualHours")
  => LET r == metric.args[1]
         currentTime == metric.args[2]
         first == IF ~ IsSet(r, 1) THEN 0
                  ELSE IF IsSet(r, 2)
                    THEN MinutesBetween(r.first_check_in_time, r.first_check_out_time)
                  ELSE MinutesBetween(r.first_check_in_time, currentTime)
         second == IF ~ IsSet(r, 1) \/ ~ IsSet(r, 3) THEN 0
                   ELSE IF IsSet(r, 4)
                     THEN MinutesBetween(r.second_check_in_time, r.second_check_out_time)
                   ELSE MinutesBetween(r.second_check_in_time, currentTime)
         minutes == first + second - metric.args[3]
     IN  /\ metric.result.whole >= 0
         /\ metric.result.whole * MinutesPerHour + metric.result.sixtieths
              = (IF minutes > 0 THEN minutes ELSE 0)

\* C21: every rate of the summary is "0.0" when its denominator is zero:
\* the number of active employees for the presence, total-present and
\* absent rates, the number present in total for the on-time and late
\* rates; every rate is a decimal.
C21_ZeroDenominatorRates ==
  (board.pc = "done")
  => LET result == board.result
         counts == result.statusCounts
         rates == result.rates
     IN  /\ \A name \in DOMAIN rates : rates[name].text = "decimal"
         /\ (result.totalEmployees = 0)
              => /\ rates.currentPresenceRate = Fixed1(0)
                 /\ rates.totalPresentRate = Fixed1(0)
                 /\ rates.absentRate = Fixed1(0)
         /\ (counts.currentlyPresent + counts.checkedOut = 0)
              => /\ rates.onTimeRate = Fixed1(0)
                 /\ rates.lateRate = Fixed1(0)

C21_Witness ==
  /\ board.pc = "done"
  /\ ~ board.faulted
  /\ board.result.totalEmployees = 0
  /\ board.result.statusCounts.currentlyPresent > 0
  /\ board.result.rates.onTimeRate # Fixed1(0)
  /\ board.result.rates.totalPresentRate = Fixed1(0)

NextActions ==
  {"first_check_in", "first_check_out", "second_check_in", "second_check_out",
   "completed"}

AttendanceStates ==
  {"not_checked_in", "first_checked_in", "first_checked_out", "second_checked_in",
   "second_checked_out"}

\* C23: getNextAttendanceAction, getCurrentAttendanceState,
\* getTodayAttendanceSummary and deleteAttendance return a value for every
\* answer of the store, a failed request included: none of them throws to
\* its caller; a deleteAttendance that failed returns success false with
\* the message of the failure.
C23_OutwardCallsReturn ==
  /\ view.pc = "done" => (~ view.thrown /\ view.result \in NextActions)
  /\ current.pc = "done" => (~ current.thrown /\ current.result \in AttendanceStates)
  /\ board.pc = "done" =>
       /\ ~ board.thrown
       /\ board.faulted => board.result = ZeroSummary
  /\ admin.pc = "done" =>
       /\ ~ admin.thrown
       /\ admin.result.success => admin.result.message = MsgDeleted
       /\ ~ admin.result.success => admin.result.message \in {MsgFetchFailed, MsgDeleteFailed}

C23_Witness ==
  /\ admin.pc = "done"
  /\ ~ admin.result.success
  /\ admin.result.message = MsgDeleteFailed
  /\ attendance # {}

\* C30: a record leaves the table only by deleteAttendance: a step that
\* removes a record is the delete of a deleteAttendance call for the id of
\* that record, it removes the record with that id and changes no other;
\* no step of recordAttendance removes a record.
C30_RemovedOnlyByDelete ==
  [][\A r \in attendance :
       (~ \E kept \in attendance' : kept.id = r.id)
       => /\ admin.pc = "delete"
          /\ admin.id = r.id
          /\ admin'.pc = "done"
          /\ admin'.result.success
          /\ call' = call
          /\ attendance' = attendance \ {r}]_vars

C30_Witness ==
  /\ admin.pc = "done"
  /\ admin.result.success
  /\ \E k \in everStored : ~ \E r \in attendance : r.id = k.id
  /\ attendance # {}

\* C27: for every null pattern of the four timestamps of today's record,
\* recordAttendance decides the action getNextAttendanceAction gives for
\* that record: a record with all four null is treated as first_check_in,
\* and only a record with all four set fails as already complete.
C27_DecisionMatchesNextAction ==
  [][\A p \in Procs :
       LET rows == TodayRows(attendance, call[p].employeeId, call[p].today)
           read == maybeSingle(rows, "none")
           expected == getNextAttendanceAction(read)
       IN  (/\ call[p].pc = "read"
            /\ call'[p].pc # "read"
            /\ ~ call'[p].faulted
            /\ ~ read.error)
           => /\ (call'[p].error = ErrCompleted) <=> (expected = "completed")
              /\ (expected # "completed") => call'[p].nextAction = expected
              /\ (call'[p].error = ErrCompleted) => \A r \in rows : AllSet(r)]_vars

\* The status the timestamps of a record stand for.
StatusOf(r) ==
  IF AllSet(r) THEN "COMPLETED"
  ELSE IF IsSet(r, 2) /\ ~ IsSet(r, 3) THEN "ON_BREAK"
  ELSE IF (IsSet(r, 3) /\ ~ IsSet(r, 4)) \/ (IsSet(r, 1) /\ ~ IsSet(r, 2))
    THEN "CHECKED_IN"
  ELSE "none"

\* C28: the status of every record a successful recordAttendance write
\* stores is the projection of the timestamps of that record: CHECKED_IN
\* when the last timestamp set is a check-in, ON_BREAK when the first
\* check-out is set and the second check-in is null, COMPLETED when all
\* four are set.
C28_StatusProjectsTimestamps ==
  [][\A r \in attendance' \ attendance : r.status = StatusOf(r)]_vars

C28_Witness ==
  \E p \in Procs :
    /\ call[p].pc = "done"
    /\ call[p].outcome = "ok"
    /\ call[p].nextAction = "second_check_out"
    /\ \E r \in TodayRows(attendance, call[p].employeeId, DateOf(now)) :
         /\ AllSet(r)
         /\ r.status = "COMPLETED"
         /\ r.second_check_out_time > ClockStart

\* C29: on every record recordAttendance writes, the record of a second
\* session included, minutes_late is the lateness of the record's own
\* first_check_in_time against the roster's start time and grace period.
C29_MinutesLateOfOwnCheckIn ==
  [][\A r \in attendance' \ attendance :
       LET roster == getEmployeeRoster(r.employee_id)
       IN  r.minutes_late =
             calculateLateness(r.first_check_in_time, roster.start_time,
                               roster.grace_period)]_vars

\* The inserted entries with the number k.
\* C32: the logger sends its buffer to the log store exactly when a log
\* call leaves at least 10 entries buffered; the buffer is emptied only
\* when an insert succeeds; when an insert fails every buffered entry is
\* kept.
C32_PersistAtTenKeepOnFailure ==
  [][/\ (logger'.logged # logger.logged)
          => /\ logger'.logBuffer = Append(logger.logBuffer,
                                            logger'.logBuffer[Len(logger'.logBuffer)])
             /\ (logger'.flights # logger.flights)
                  <=> (Len(logger'.logBuffer) >= FlushThreshold)
             /\ \A flight \in logger'.flights \ logger.flights :
                  flight.body = logger'.logBuffer
     /\ (logger'.logged = logger.logged)
          => logger'.flights \subseteq logger.flights
     /\ (Len(logger'.logBuffer) < Len(logger.logBuffer))
          => /\ logger'.logBuffer = <<>>
             /\ Len(logger'.logStore) > Len(logger.logStore)
     /\ (logger'.logged = logger.logged /\ logger'.logStore = logger.logStore)
          => logger'.logBuffer = logger.logBuffer]_vars

C32_Witness ==
  /\ logger.flights = {}
  /\ logger.logStore = <<>>
  /\ Len(logger.logBuffer) > FlushThreshold

\* C37: whatever the order of log calls and of the answers to the inserts
\* in flight, every entry logged is in the buffer, or in an insert in
\* flight, or in the log store once: none is lost and none is stored twice.
C37_EntriesPersistedOnce ==
  \A k \in 1..logger.logged :
    LET inserted == {i \in 1..Len(logger.logStore) : logger.logStore[i].n = k}
    IN  /\ Cardinality(inserted) <= 1
        /\ \/ \E i \in 1..Len(logger.logBuffer) : logger.logBuffer[i].n = k
           \/ Cardinality(inserted) = 1
           \/ \E flight \in logger.flights :
                \E i \in 1..Len(flight.body) : flight.body[i].n = k

\* C31: a fetch of useAttendanceData shows the cached records without
\* asking the store only while the cached entry is younger than 30 seconds;
\* a fetch that finds the entry 30 seconds old or older, or no entry, and
\* every forceRefresh, asks the store; recordAttendance takes the record it
\* decides on from the store, whatever the cache holds.
C31_CacheYoungerThanThirtySeconds ==
  /\ [](/\ cache.last = "cache"
            => /\ cache.entry.timestamp # NULL
               /\ cache.clock - cache.entry.timestamp < CacheDurationMs
               /\ cache.attendanceRecords = cache.entry.data
        /\ cache.last = "store"
            => /\ cache.queries > 0
               /\ \/ cache.entry.timestamp = NULL
                  \/ cache.clock - cache.entry.timestamp >= CacheDurationMs
        /\ cache.last = "cleared"
            => /\ cache.queries > 0
               /\ cache.entry.timestamp = NULL)
  /\ [][/\ cache'.last = "cache" => cache'.queries = cache.queries
        /\ \A p \in Procs :
             (call[p].pc = "read" /\ call'[p].pc \in {"insert", "upsert"})
               => /\ cache' = cache
                  /\ LET mine == TodayRows(attendance, call[p].employeeId, call[p].today)
                     IN  IF mine = {} THEN call'[p].existingRecord = NoRecord
                         ELSE call'[p].existingRecord \in mine]_vars

\* A fetch asks the store for an entry of exactly 30 seconds, while a scan
\* works on today's record of which the cached list knows nothing.
C31_Witness ==
  /\ cache.last = "store"
  /\ cache.entry.timestamp # NULL
  /\ cache.clock - cache.entry.timestamp = CacheDurationMs
  /\ cache.entry.data = {}
  /\ call["s1"].pc = "upsert"
  /\ call["s1"].existingRecord.id # NULL

\* C39: a detected code that arrives while the scanner is processing a
\* scan, or less than 2000 ms after the scan it took up last, starts no
\* recordAttendance call; the scanner has at most one call in flight.
C39_OneScanInFlight ==
  /\ [](/\ scanner.inFlight <= 1
        /\ scanner.inFlight > 0 => scanner.isLoading)
  /\ [][scanner'.inFlight > scanner.inFlight
          => /\ ~ scanner.isLoading
             /\ scanner.inFlight = 0
             /\ scanner.clock - scanner.lastScanTime >= DebounceMs
             /\ scanner'.lastScanTime = scanner.clock]_vars

\* A code is detected more than 2000 ms after the scan that is still being
\* processed, and is dropped.
C39_Witness ==
  /\ scanner.last = "busy"
  /\ scanner.inFlight = 1
  /\ scanner.clock - scanner.lastScanTime >= DebounceMs

\* C33: starting from an empty attendance table, no stored record ever has
\* second_check_in_time or second_check_out_time set, no recordAttendance
\* call decides on second_check_out and no record has status COMPLETED.
C33_SecondColumnsStayNull ==
  /\ \A r \in attendance :
       /\ r.second_check_in_time = NULL
       /\ r.second_check_out_time = NULL
       /\ r.status # "COMPLETED"
  /\ \A p \in Procs : call[p].nextAction # "second_check_out"

\* A second-session row is stored and a later scan of its employee has
\* ended with the error of the read although the store answered.
C33_Witness ==
  \E r \in attendance, p \in Procs :
    /\ r.is_second_session
    /\ call[p].pc = "done"
    /\ call[p].employeeId = r.employee_id
    /\ call[p].nextAction = "none"
    /\ call[p].outcome = "error"
    /\ call[p].error = ErrReadFailed
    /\ ~ call[p].faulted

\* C34: while nothing is deleted and the scans of an employee follow one
\* another, each recordAttendance call that succeeds for the employee moves the answer of getNextAttendanceAction for that
\* employee and day one step forward in the order first_check_in,
\* first_check_out, second_check_in, second_check_out, completed.
C34_NextActionAdvancesByOne ==
  [][\A p \in Procs :
       (/\ deletes = 0
        /\ call[p].pc \in {"insert", "upsert"}
        /\ run[call[p].employeeId].clean
        /\ call'[p].pc = "done"
        /\ call'[p].outcome = "ok")
         => LET order == <<"first_check_in", "first_check_out", "second_check_in",
                           "second_check_out", "completed">>
                rank(a) == CHOOSE i \in 1..Len(order) : order[i] = a
                answer(rows) ==
                  getNextAttendanceAction(
                    maybeSingle(TodayRows(rows, call[p].employeeId, call[p].today),
                                "none"))
            IN  rank(answer(attendance')) = rank(answer(attendance)) + 1]_vars

\* C35: for every employee and every answer of the read of today's record,
\* getCurrentAttendanceState and getNextAttendanceAction agree:
\* not_checked_in goes with first_check_in, first_checked_in with
\* first_check_out, first_checked_out with second_check_in,
\* second_checked_in with second_check_out and second_checked_out with
\* completed; so do the answers the scanner screen received for one table.
C35_StateAndNextActionAgree ==
  LET pair == [not_checked_in |-> "first_check_in",
               first_checked_in |-> "first_check_out",
               first_checked_out |-> "second_check_in",
               second_checked_in |-> "second_check_out",
               second_checked_out |-> "completed"]
  IN  /\ \A e \in QueriedIds, fault \in ReadFaults :
           LET read == maybeSingle(TodayRows(attendance, e, DateOf(now)), fault)
           IN  pair[getCurrentAttendanceState(read)] = getNextAttendanceAction(read)
      /\ (/\ view.pc = "done"
          /\ ~ view.faulted
          /\ ~ current.last.faulted
          /\ current.last.employeeId = view.employeeId
          /\ current.last.rows = TodayRows(attendance, view.employeeId, DateOf(now)))
           => pair[current.last.result] = view.result

\* Both queries answered for a record whose second session is open.
C35_Witness ==
  /\ view.pc = "done"
  /\ view.result = "second_check_out"
  /\ current.last.employeeId = view.employeeId
  /\ current.last.result = "second_checked_in"
  /\ current.last.rows = TodayRows(attendance, view.employeeId, DateOf(now))

\* C38: a step that changes the attendance table is the write of one
\* recordAttendance call, and every record it adds, changes or removes is
\* a record of the employee of that call and of the day of that call.
C38_WritesOwnEmployeeAndDay ==
  [][attendance' # attendance
       => \E p \in Procs :
            /\ call[p].pc \in {"insert", "upsert"}
            /\ call'[p].pc = "done"
            /\ \A r \in (attendance \ attendance') \cup (attendance' \ attendance) :
                 /\ r.employee_id = call[p].employeeId
                 /\ r.date = call[p].today]_vars

\* Both employees have a record of today, one of them changed by a second
\* scan, next to the record of the day before.
C38_Witness ==
  \E r1, r2, r3 \in attendance :
    /\ r1.date # DateOf(now)
    /\ r2.employee_id = "e1" /\ r2.date = DateOf(now)
    /\ r3.employee_id = "e2" /\ r3.date = DateOf(now)
    /\ r3.first_check_out_time # NULL

\* C36: while nothing is deleted and all records of today are of active
\* employees, getTodayAttendanceSummary counts at most one record of each
\* employee as currently present or checked out, the employees counted are
\* no more than the active employees, and counted plus absent employees
\* are the active employees.
C36_EmployeeCountedOnce ==
  LET today == {r \in attendance : r.date = DateOf(now)}
      attendanceData ==
        CHOOSE f \in [1..Cardinality(today) -> today] : \A r \in today : \E i \in DOMAIN f : f[i] = r
      totalEmployees ==
        Cardinality({e \in DOMAIN employees : employees[e].status = "active"})
      counts == getTodayAttendanceSummary(totalEmployees, attendanceData, "none").value.statusCounts
      counted(r) == LET one == CountRecord(ZeroCounts, r)
                    IN  one.currentlyPresent + one.checkedOut > 0
  IN  (/\ deletes = 0
       /\ \A r \in today : /\ r.employee_id \in DOMAIN employees
                            /\ employees[r.employee_id].status = "active")
        => /\ \A e \in DOMAIN employees :
                Cardinality({r \in today : r.employee_id = e /\ counted(r)}) <= 1
           /\ counts.currentlyPresent + counts.checkedOut <= totalEmployees
           /\ counts.currentlyPresent + counts.checkedOut + counts.absent = totalEmployees

\* C40: while nothing is deleted, for every employee and every range of
\* dates with startDate <= endDate, calculateAttendanceMetrics returns
\* 0 <= daysPresent <= totalDays, daysAbsent >= 0 and an
\* attendancePercentage of at most 100.
C40_DaysPresentWithinRange ==
  deletes = 0
    => \A e \in DOMAIN employees, startDate \in 0..DateOf(now), endDate \in 0..DateOf(now) :
         startDate <= endDate
           => LET metrics == calculateAttendanceMetrics(attendance, e, startDate, endDate)
              IN  /\ 0 <= metrics.daysPresent
                  /\ metrics.daysPresent <= metrics.totalDays
                  /\ metrics.daysAbsent >= 0
                  /\ metrics.daysPresent * 100 <= 100 * metrics.totalDays

====
